---- MODULE Spec2Model ----
(***************************************************************************)
(* Authorization core of dreon-auth: the relation-tuple engine             *)
(* (RelationSvc over relationTupleRepository) and the role-based           *)
(* permission aggregator (RoleSvc over the role and user-role stores),     *)
(* both in front of a shared key-value cache.                              *)
(*                                                                         *)
(* A Go pointer to a time, a string or a bool is modelled as a set with at *)
(* most one element: {} is nil and {v} points to v.                        *)
(***************************************************************************)
EXTENDS Integers, Sequences, FiniteSets, Bags, TLC

VARIABLES
    tuples,        \* rows of table relation_tuples
    now,           \* the wall clock read by time.Now()
    relCache,      \* cache entries under the prefix "relation_tuples:"
    roles,         \* rows of table roles
    userRoles,     \* rows of table user_roles, a bag: the primary key is left out
    permCache,     \* cache entries under the prefix "user_permissions:"
    pendingClear,  \* goroutines started by `go s.clearUserPermissionsCache(..)`
    lastOp,        \* the last service call and what it returned
    inflight,      \* per caller: the GrantRelation or AssignRoleToUser call that
                   \* has done its lookup and not yet its insert
    failures,      \* the store and cache calls that have returned an error
    sessions,      \* rows of table sessions
    loggedOut,     \* history: the refresh tokens for which Logout has returned nil
    cachedFrom     \* history: per key of permCache written by an overlapping
                   \* GetUserPermissions, the user_roles rows its map was built from

relVars  == <<tuples, now, relCache>>
authVars == <<sessions, loggedOut>>
roleVars == <<roles, userRoles, permCache, pendingClear>>
vars     == <<tuples, now, relCache, roles, userRoles, permCache, pendingClear, lastOp,
             inflight, failures, sessions, loggedOut,
             cachedFrom>>

---------------------------------------------------------------------------
(* Bounds of the model *)

MaxTime   == 2    \* the clock runs over 0..MaxTime
MaxRows   == 3    \* rows the relation_tuples table can hold
MaxExpiry == 1    \* requests carry expiresAt = nil or an instant in 1..MaxExpiry
MaxBulk   == 2    \* items of a bulk request
MaxRoles  == 2    \* rows the roles table can hold
MaxAssignments == 2   \* rows the user_roles table can hold
MaxPending == 1   \* cache-clearing goroutines that have not run yet

---------------------------------------------------------------------------
(* Requests of the relation engine *)

NatKey(ns, oid, rel, sns, sid, srel) ==
    [namespace |-> ns, objectId |-> oid, relation |-> rel,
     subjectNamespace |-> sns, subjectObjectId |-> sid, subjectRelation |-> srel]

\* document:readme#viewer@user:alice
KAlice  == NatKey("document", "readme", "viewer", "user", "alice", "")
\* document:readme#viewer@team:eng#member  (a userset subject)
KTeam   == NatKey("document", "readme", "viewer", "team", "eng", "member")
\* document:readme#viewer@team:eng  (the team itself, no subject relation)
KTeamPlain == NatKey("document", "readme", "viewer", "team", "eng", "")
\* team:eng#member@user:alice
KMember == NatKey("team", "eng", "member", "user", "alice", "")
\* a request that misses the required namespace
KNoNs   == NatKey("", "readme", "viewer", "user", "alice", "")

Keys == {KAlice, KTeam, KTeamPlain, KMember}

ExpiryChoices == {{}} \cup {{e} : e \in 1..MaxExpiry}

WithExpiry(k, exp) ==
    [namespace |-> k.namespace, objectId |-> k.objectId, relation |-> k.relation,
     subjectNamespace |-> k.subjectNamespace, subjectObjectId |-> k.subjectObjectId,
     subjectRelation |-> k.subjectRelation, expiresAt |-> exp]

\* every key without an expiry, and the first key with each expiry
GrantReqs  == {WithExpiry(k, {}) : k \in Keys \cup {KNoNs}}
              \cup {WithExpiry(KAlice, exp) : exp \in ExpiryChoices}
RevokeReqs == Keys

Key5(k) ==
    [namespace |-> k.namespace, objectId |-> k.objectId, relation |-> k.relation,
     subjectNamespace |-> k.subjectNamespace, subjectObjectId |-> k.subjectObjectId]

Key6(r) ==
    NatKey(r.namespace, r.objectId, r.relation,
           r.subjectNamespace, r.subjectObjectId, r.subjectRelation)

CheckReqs  == {Key5(k) : k \in Keys}
ExpandReqs == {[namespace |-> k.namespace, objectId |-> k.objectId, relation |-> k.relation] : k \in Keys}

\* the batches of up to MaxBulk items that are all k, or all k but one item
OneOff(k, other) ==
    UNION {{[i \in 1..n |-> k]} \cup {[i \in 1..n |-> IF i = p THEN other ELSE k] : p \in 1..n} :
           n \in 1..MaxBulk}

BulkGrantReqs  == OneOff(WithExpiry(KAlice, {}), WithExpiry(KNoNs, {}))
BulkRevokeReqs == OneOff(KAlice, KMember)

---------------------------------------------------------------------------
(* model.RelationTuple *)

Object(rt)  == rt.namespace \o ":" \o rt.objectId

Subject(rt) ==
    IF rt.subjectRelation # ""
    THEN rt.subjectNamespace \o ":" \o rt.subjectObjectId \o "#" \o rt.subjectRelation
    ELSE rt.subjectNamespace \o ":" \o rt.subjectObjectId

String(rt)  == Object(rt) \o "#" \o rt.relation \o "@" \o Subject(rt)

\* a row that never counts as expired
IsExpiredNever(rt) == FALSE

IsExpired(rt) == \E e \in rt.expiresAt : now > e

IsValid(rt) == rt.isActive /\ ~IsExpired(rt)

---------------------------------------------------------------------------
(* relationTupleRepository *)

\* a comparison that also requires the row to carry no subject relation
Match5DirectOnly(t, r) ==
    /\ t.namespace = r.namespace
    /\ t.objectId = r.objectId
    /\ t.relation = r.relation
    /\ t.subjectNamespace = r.subjectNamespace
    /\ t.subjectObjectId = r.subjectObjectId
    /\ t.subjectRelation = ""

Match5(t, r) ==
    /\ t.namespace = r.namespace
    /\ t.objectId = r.objectId
    /\ t.relation = r.relation
    /\ t.subjectNamespace = r.subjectNamespace
    /\ t.subjectObjectId = r.subjectObjectId

\* a WHERE clause without the condition on subject_relation
MatchTupleAnySubjectRelation(t, r) == Match5(t, r)

\* the WHERE clause shared by FindByTuple and DeleteByTuple
MatchTuple(t, r) ==
    /\ Match5(t, r)
    /\ IF r.subjectRelation # ""
       THEN t.subjectRelation = r.subjectRelation
       ELSE t.subjectRelation = ""

\* query.First: the matching row with the least primary key, {} when none
FindByTuple(store, r) ==
    LET m == {t \in store : MatchTuple(t, r)}
    IN  {t \in m : \A u \in m : t.id <= u.id}

\* the filter without its expires_at condition
NotExpiredFilterNoExpiry(t) == TRUE

\* WHERE expires_at IS NULL OR expires_at > now
NotExpiredFilter(t) == t.expiresAt = {} \/ \E e \in t.expiresAt : e > now

\* CheckPermission that also accepts a subject who holds the subject relation
\* of a matching userset row (one hop of userset resolution)
CheckPermissionViaUserset(r) ==
    \/ \E t \in tuples : Match5(t, r) /\ t.isActive /\ NotExpiredFilter(t)
    \/ \E t, m \in tuples :
          /\ t.namespace = r.namespace /\ t.objectId = r.objectId /\ t.relation = r.relation
          /\ t.subjectRelation # ""
          /\ m.namespace = t.subjectNamespace /\ m.objectId = t.subjectObjectId
          /\ m.relation = t.subjectRelation
          /\ m.subjectNamespace = r.subjectNamespace
          /\ m.subjectObjectId = r.subjectObjectId

CheckPermission(r) ==
    \E t \in tuples : Match5(t, r) /\ t.isActive /\ NotExpiredFilter(t)

\* the query with a filter that keeps direct subjects only
ExpandSubjectsDirectOnly(r) ==
    {t \in tuples : /\ t.namespace = r.namespace
                    /\ t.objectId = r.objectId
                    /\ t.relation = r.relation
                    /\ t.subjectRelation = ""
                    /\ t.isActive
                    /\ NotExpiredFilter(t)}

ExpandSubjects(r) ==
    {t \in tuples : /\ t.namespace = r.namespace
                    /\ t.objectId = r.objectId
                    /\ t.relation = r.relation
                    /\ t.isActive
                    /\ NotExpiredFilter(t)}

\* a delete of the one row the lookup returns instead of a delete by WHERE
DeleteByTupleFirstRow(store, r) == store \ FindByTuple(store, r)

DeleteByTuple(store, r) == {t \in store : ~MatchTuple(t, r)}

\* a cleanup whose cut-off lies one time unit ahead
CleanupExpiredAhead(store) == {t \in store : ~(\E e \in t.expiresAt : e <= now + 1)}

CleanupExpired(store) == {t \in store : ~(\E e \in t.expiresAt : e <= now)}

---------------------------------------------------------------------------
(* RelationSvc *)

\* the checks without the one on expiresAt
validateRelationRequestFieldsOnly(req) ==
    IF req.namespace = "" THEN "namespace is required"
    ELSE IF req.objectId = "" THEN "objectId is required"
    ELSE IF req.relation = "" THEN "relation is required"
    ELSE IF req.subjectNamespace = "" THEN "subjectNamespace is required"
    ELSE IF req.subjectObjectId = "" THEN "subjectObjectId is required"
    ELSE ""

validateRelationRequest(req) ==
    IF req.namespace = "" THEN "namespace is required"
    ELSE IF req.objectId = "" THEN "objectId is required"
    ELSE IF req.relation = "" THEN "relation is required"
    ELSE IF req.subjectNamespace = "" THEN "subjectNamespace is required"
    ELSE IF req.subjectObjectId = "" THEN "subjectObjectId is required"
    ELSE IF \E e \in req.expiresAt : e < now THEN "expiresAt must be in the future"
    ELSE ""

CacheKeyPrefixRelationTuple == "relation_tuples:"

buildCacheKey(rt) == CacheKeyPrefixRelationTuple \o String(rt)

\* the tuple CheckRelation builds for its cache key: SubjectRelation stays ""
CheckKeyTuple(req) ==
    NatKey(req.namespace, req.objectId, req.relation,
           req.subjectNamespace, req.subjectObjectId, "")

\* NewTuple with the IsActive flag left at its zero value
NewTupleInactive(id, req) ==
    [id |-> id,
     namespace |-> req.namespace, objectId |-> req.objectId, relation |-> req.relation,
     subjectNamespace |-> req.subjectNamespace, subjectObjectId |-> req.subjectObjectId,
     subjectRelation |-> req.subjectRelation,
     isActive |-> FALSE, expiresAt |-> req.expiresAt]

\* the row GrantRelation and BulkGrantRelations hand to the store
NewTuple(id, req) ==
    [id |-> id,
     namespace |-> req.namespace, objectId |-> req.objectId, relation |-> req.relation,
     subjectNamespace |-> req.subjectNamespace, subjectObjectId |-> req.subjectObjectId,
     subjectRelation |-> req.subjectRelation,
     isActive |-> TRUE, expiresAt |-> req.expiresAt]

FreeIds == (1..MaxRows) \ {t.id : t \in tuples}

\* a call the service makes on the cache while it serves a request
CacheCall(call, key) == [call |-> call, key |-> key]

\* a cache.Set that passes no time to live: the entry never expires
CacheSetCallNoTTL(key, ttl) == [call |-> "Set", key |-> key, ttl |-> 0]

\* a cache.Set of the key with a time to live, in seconds
CacheSetCall(key, ttl) == [call |-> "Set", key |-> key, ttl |-> ttl]

\* 1 * time.Hour
CacheDefaultTTL == 3600

\* what a call leaves behind: its name, its arguments (a sequence of request
\* records), the error code it returned ("OK" for none), its result record
\* and the calls it made on the cache, in order
ReturnedVia(op, req, outcome, result, cacheCalls) ==
    [op |-> op, req |-> req, outcome |-> outcome, result |-> result, cache |-> cacheCalls]

\* the same for a call that does not touch the cache
Returned(op, req, outcome, result) == ReturnedVia(op, req, outcome, result, <<>>)

NoResult == [none |-> TRUE]

GrantRelation(req) ==
    LET existing == FindByTuple(tuples, req)
    IN  IF validateRelationRequest(req) # ""
        THEN /\ lastOp' = Returned("GrantRelation", <<req>>, "ErrInvalidPermission", NoResult)
             /\ UNCHANGED <<cachedFrom, authVars, inflight, failures, relVars, roleVars>>
        ELSE IF \E t \in existing : IsValid(t)
        THEN /\ lastOp' = Returned("GrantRelation", <<req>>, "ErrPermissionConflict", NoResult)
             /\ UNCHANGED <<cachedFrom, authVars, inflight, failures, relVars, roleVars>>
        ELSE \E id \in FreeIds :
             /\ tuples' = tuples \cup {NewTuple(id, req)}
             /\ lastOp' = Returned("GrantRelation", <<req>>, "OK", [rows |-> {NewTuple(id, req)}])
             /\ UNCHANGED <<cachedFrom, authVars, inflight, failures, now, relCache, roleVars>>

\* the outcome and the store left by one RevokeRelation call
RevokeOn(store, req) ==
    IF FindByTuple(store, req) = {}
    THEN [outcome |-> "ErrPermissionNotFound", store |-> store]
    ELSE [outcome |-> "OK", store |-> DeleteByTuple(store, req)]

\* RevokeRelation returns an error or nil; the number of rows its DELETE
\* removed is kept with the call although the caller never sees it
RevokeRelation(req) ==
    /\ tuples' = RevokeOn(tuples, req).store
    /\ lastOp' = Returned("RevokeRelation", <<req>>, RevokeOn(tuples, req).outcome,
                          [deleted |-> Cardinality(tuples \ RevokeOn(tuples, req).store)])
    /\ UNCHANGED <<cachedFrom, authVars, inflight, failures, now, relCache, roleVars>>

BulkGrantRelations(reqs) ==
    IF \E i \in 1..Len(reqs) : validateRelationRequest(reqs[i]) # ""
    THEN /\ lastOp' = Returned("BulkGrantRelations", reqs, "ErrInvalidPermission", NoResult)
         /\ UNCHANGED <<cachedFrom, authVars, inflight, failures, relVars, roleVars>>
    ELSE \E ids \in [1..Len(reqs) -> FreeIds] :
         /\ \A i, j \in 1..Len(reqs) : i # j => ids[i] # ids[j]
         /\ tuples' = tuples \cup {NewTuple(ids[i], reqs[i]) : i \in 1..Len(reqs)}
         /\ lastOp' = Returned("BulkGrantRelations", reqs, "OK",
                               [rows |-> {NewTuple(ids[i], reqs[i]) : i \in 1..Len(reqs)}])
         /\ UNCHANGED <<cachedFrom, authVars, inflight, failures, now, relCache, roleVars>>

\* the loop of BulkRevokeRelations from item i on; RevokeRelation only ever
\* fails with not-found here, which the loop drops
RECURSIVE BulkRevokeFromUntilMissing(_, _, _)
\* the loop returning at the first item that is not found
BulkRevokeFromUntilMissing(store, reqs, i) ==
    IF i > Len(reqs) \/ RevokeOn(store, reqs[i]).outcome # "OK" THEN store
    ELSE BulkRevokeFromUntilMissing(RevokeOn(store, reqs[i]).store, reqs, i + 1)

RECURSIVE BulkRevokeFrom(_, _, _)
BulkRevokeFrom(store, reqs, i) ==
    IF i > Len(reqs) THEN store
    ELSE BulkRevokeFrom(RevokeOn(store, reqs[i]).store, reqs, i + 1)

\* what the inner RevokeRelation calls of the loop return, item by item
\* (each revoked item is logged, none of this reaches the caller)
RECURSIVE BulkRevokeOutcomes(_, _, _)
BulkRevokeOutcomes(store, reqs, i) ==
    IF i > Len(reqs) THEN <<>>
    ELSE <<RevokeOn(store, reqs[i]).outcome>>
         \o BulkRevokeOutcomes(RevokeOn(store, reqs[i]).store, reqs, i + 1)

BulkRevokeRelations(reqs) ==
    /\ tuples' = BulkRevokeFrom(tuples, reqs, 1)
    /\ lastOp' = Returned("BulkRevokeRelations", reqs, "OK",
                          [items |-> BulkRevokeOutcomes(tuples, reqs, 1)])
    /\ UNCHANGED <<cachedFrom, authVars, inflight, failures, now, relCache, roleVars>>

\* the response of CheckRelation in the current state: the cached boolean on
\* a hit, the store's answer on a miss
CheckAllowed(req) ==
    IF buildCacheKey(CheckKeyTuple(req)) \in DOMAIN relCache
    THEN relCache[buildCacheKey(CheckKeyTuple(req))]
    ELSE CheckPermission(req)

CheckRelation(req) ==
    /\ lastOp' = ReturnedVia("CheckRelation", <<req>>, "OK", [allowed |-> CheckAllowed(req)],
                             <<CacheCall("Get", buildCacheKey(CheckKeyTuple(req)))>>)
    /\ UNCHANGED <<cachedFrom, authVars, inflight, failures, relVars, roleVars>>

\* the subjects ExpandRelation answers with, and their count
ExpandResult(req) ==
    [subjects |-> {[namespace |-> t.subjectNamespace, objectId |-> t.subjectObjectId,
                    relation |-> t.subjectRelation] : t \in ExpandSubjects(req)},
     count |-> Cardinality(ExpandSubjects(req))]

ExpandRelation(req) ==
    /\ lastOp' = Returned("ExpandRelation", <<req>>, "OK", ExpandResult(req))
    /\ UNCHANGED <<cachedFrom, authVars, inflight, failures, relVars, roleVars>>

CleanupExpiredRelations ==
    /\ tuples' = CleanupExpired(tuples)
    /\ lastOp' = Returned("CleanupExpiredRelations", <<>>, "OK",
                          [count |-> Cardinality(tuples) - Cardinality(CleanupExpired(tuples))])
    /\ UNCHANGED <<cachedFrom, authVars, inflight, failures, now, relCache, roleVars>>

\* time passes between two calls
Tick ==
    /\ now < MaxTime
    /\ now' = now + 1
    /\ UNCHANGED <<cachedFrom, authVars, inflight, failures, tuples, relCache, roleVars, lastOp>>

\* the request tasks that can be inside a call at the same time
Callers == {"c1", "c2"}

\* a caller that is inside no call
Idle == [pc |-> "idle"]

---------------------------------------------------------------------------
(* The relation engine on its own *)

Init ==
    /\ tuples = {}
    /\ now = 0
    /\ relCache = [k \in {} |-> FALSE]
    /\ roles = {}
    /\ userRoles = EmptyBag
    /\ permCache = [k \in {} |-> {}]
    /\ pendingClear = [u \in {"u1"} |-> 0]
    /\ lastOp = Returned("none", <<>>, "OK", NoResult)
    /\ inflight = [c \in Callers |-> Idle]
    /\ failures = <<>>
    /\ sessions = {}
    /\ loggedOut = {}
    /\ cachedFrom = [k \in {} |-> {}]

NextRel ==
    \/ \E req \in GrantReqs : GrantRelation(req)
    \/ \E req \in RevokeReqs : RevokeRelation(req)
    \/ \E reqs \in BulkGrantReqs : BulkGrantRelations(reqs)
    \/ \E reqs \in BulkRevokeReqs : BulkRevokeRelations(reqs)
    \/ \E req \in CheckReqs : CheckRelation(req)
    \/ \E req \in ExpandReqs : ExpandRelation(req)
    \/ CleanupExpiredRelations
    \/ Tick

SpecRel == Init /\ [][NextRel]_vars

---------------------------------------------------------------------------
(* Grants of invalid requests *)

RequiredFields == {"namespace", "objectId", "relation", "subjectNamespace", "subjectObjectId"}

\* the first key, the first key with one required field left empty, and the
\* first key with each expiry
InvalidGrantReqs ==
    {WithExpiry([KAlice EXCEPT ![f] = ""], {}) : f \in RequiredFields}
    \cup {WithExpiry(KAlice, exp) : exp \in ExpiryChoices}

\* batches of a valid item, an item without subjectObjectId and an item with
\* an expiry
InvalidBulkGrantReqs ==
    UNION {[1..n -> {WithExpiry(KAlice, {}),
                     WithExpiry([KAlice EXCEPT !["subjectObjectId"] = ""], {}),
                     WithExpiry(KAlice, {1})}] : n \in 1..MaxBulk}

NextInvalid ==
    \/ \E req \in InvalidGrantReqs : GrantRelation(req)
    \/ \E reqs \in InvalidBulkGrantReqs : BulkGrantRelations(reqs)
    \/ \E req \in {KAlice} : RevokeRelation(req)
    \/ Tick

SpecInvalid == Init /\ [][NextInvalid]_vars

\* what the contract calls invalid input: a required field left empty, or an
\* expiry before the current time
InvalidInput(req) ==
    \/ \E f \in RequiredFields : req[f] = ""
    \/ \E e \in req.expiresAt : e < now

\* C18: a GrantRelation or BulkGrantRelations call with an invalid item (an
\* empty required field or an expiresAt in the past) anywhere in its input
\* returns the validation outcome, whatever the store holds on the key, and
\* leaves the store as it was; a batch with one invalid item inserts nothing.
C18_InvalidInputRejected ==
    [][((\/ lastOp'.op = "GrantRelation" /\ GrantRelation(lastOp'.req[1])
         \/ lastOp'.op = "BulkGrantRelations" /\ BulkGrantRelations(lastOp'.req))
        /\ \E i \in 1..Len(lastOp'.req) : InvalidInput(lastOp'.req[i]))
       => /\ lastOp'.outcome = "ErrInvalidPermission"
          /\ tuples' = tuples]_vars

\* a batch whose first item is valid and whose second is not was rejected
\* while the key of the first item was stored
C18_Witness ==
    /\ lastOp.op = "BulkGrantRelations"
    /\ lastOp.outcome = "ErrInvalidPermission"
    /\ Len(lastOp.req) = 2
    /\ ~InvalidInput(lastOp.req[1])
    /\ InvalidInput(lastOp.req[2])
    /\ \E t \in tuples : MatchTuple(t, lastOp.req[1])

---------------------------------------------------------------------------
(* Properties of the relation engine, checked under SpecRel *)

\* a row of the natural key of req that model.RelationTuple.IsValid accepts
ValidAtKey(req) == \E t \in tuples : MatchTuple(t, req) /\ IsValid(t)

\* expiresAt is unset or still ahead of the clock
StillAhead(exp, clock) == \A e \in exp : e > clock

\* C1: a GrantRelation that passes validation and finds no valid tuple at
\* its natural key succeeds, and a CheckRelation issued right afterwards for
\* the same (namespace, objectId, relation, subjectNamespace,
\* subjectObjectId) answers allowed=true, unless the granted expiresAt has
\* been reached by then.
C1_GrantThenCheckAllowed ==
    [][\A req \in {lastOp'.req[i] : i \in 1..Len(lastOp'.req)} :
         (/\ lastOp'.op = "GrantRelation"
          /\ GrantRelation(req)
          /\ validateRelationRequest(req) = ""
          /\ ~ValidAtKey(req))
         => /\ lastOp'.outcome = "OK"
            /\ \E t \in tuples' \ tuples : Key6(t) = Key6(req)
            /\ StillAhead(req.expiresAt, now') => CheckAllowed(Key5(req))']_vars

C1_Witness ==
    /\ lastOp.op = "GrantRelation"
    /\ lastOp.outcome = "OK"
    /\ StillAhead(lastOp.req[1].expiresAt, now)
    /\ CheckAllowed(Key5(lastOp.req[1]))

\* C2: when the call before was a successful GrantRelation of the same
\* natural key and the tuple it created is still stored, active and not
\* expired, GrantRelation returns ErrPermissionConflict and inserts no row.
C2_SecondGrantConflicts ==
    [][\A req \in {lastOp'.req[i] : i \in 1..Len(lastOp'.req)} :
         (/\ lastOp'.op = "GrantRelation"
          /\ GrantRelation(req)
          /\ validateRelationRequest(req) = ""
          /\ lastOp.op = "GrantRelation"
          /\ lastOp.outcome = "OK"
          /\ Key6(lastOp.req[1]) = Key6(req)
          /\ \E t \in lastOp.result.rows : t \in tuples /\ IsValid(t))
         => /\ lastOp'.outcome = "ErrPermissionConflict"
            /\ tuples' = tuples]_vars

\* C3: RevokeRelation on a natural key without a stored row returns
\* ErrPermissionNotFound; on a stored key it succeeds and a CheckRelation
\* issued right afterwards for the same 5-tuple answers allowed=false.
C3_RevokeThenCheckDenied ==
    [][\A req \in {lastOp'.req[i] : i \in 1..Len(lastOp'.req)} :
         (lastOp'.op = "RevokeRelation" /\ RevokeRelation(req))
         => IF \E t \in tuples : MatchTuple(t, req)
            THEN lastOp'.outcome = "OK" /\ ~CheckAllowed(Key5(req))'
            ELSE lastOp'.outcome = "ErrPermissionNotFound"]_vars

\* a valid row for the 5-tuple of req whose subjectRelation is not req's
OtherSubjectRelation(req) ==
    \E t \in tuples :
        Match5(t, req) /\ ~MatchTuple(t, req) /\ t.isActive /\ StillAhead(t.expiresAt, now)

\* C3, amended: RevokeRelation on a natural key without a stored row returns
\* ErrPermissionNotFound; on a stored key it succeeds, and a CheckRelation
\* issued right afterwards for the same 5-tuple answers allowed=false unless
\* a valid tuple with the same five fields and another subjectRelation is
\* stored, in which case it answers allowed=true.
C3_RevokeThenCheckBySubjectRelation ==
    [][\A req \in {lastOp'.req[i] : i \in 1..Len(lastOp'.req)} :
         (lastOp'.op = "RevokeRelation" /\ RevokeRelation(req))
         => IF \E t \in tuples : MatchTuple(t, req)
            THEN /\ lastOp'.outcome = "OK"
                 /\ CheckAllowed(Key5(req))' <=> OtherSubjectRelation(req)
            ELSE lastOp'.outcome = "ErrPermissionNotFound" /\ tuples' = tuples]_vars

C3_Witness ==
    /\ lastOp.op = "RevokeRelation"
    /\ lastOp.outcome = "OK"
    /\ tuples # {}
    /\ ~CheckAllowed(Key5(lastOp.req[1]))

\* a row whose expiresAt lies in the past
InThePast(t) == \E e \in t.expiresAt : e < now

\* C4: rows whose expiresAt is in the past never make CheckRelation answer
\* allowed=true and never show up in ExpandRelation, although their isActive
\* flag is set; CleanupExpiredRelations leaves no such row and returns the
\* number of rows it deleted.
C4_ExpiredExcludedAndCleaned ==
    /\ [](\A r \in CheckReqs :
            (\A t \in tuples : Match5(t, r) => InThePast(t)) => ~CheckAllowed(r))
    /\ [](\A r \in ExpandReqs :
            /\ \A t \in ExpandSubjects(r) : ~InThePast(t)
            /\ ExpandResult(r).count =
                 Cardinality({t \in tuples : /\ t.namespace = r.namespace
                                              /\ t.objectId = r.objectId
                                              /\ t.relation = r.relation
                                              /\ ~InThePast(t)
                                              /\ now \notin t.expiresAt}))
    /\ [][CleanupExpiredRelations
          => /\ \A t \in tuples' : ~InThePast(t)'
             /\ tuples' \subseteq tuples
             /\ lastOp'.result.count = Cardinality(tuples \ tuples')]_vars

C4_Witness ==
    /\ lastOp.op = "CleanupExpiredRelations"
    /\ lastOp.result.count >= 1
    /\ tuples # {}

\* C5: the store never holds two active, non-expired rows with the same
\* natural key.
C5_OneValidRowPerKey ==
    \A t, u \in tuples :
        (Key6(t) = Key6(u) /\ IsValid(t) /\ IsValid(u)) => t = u

C11_BulkRevokeSkipsMissing ==
    [][(lastOp'.op = "BulkRevokeRelations" /\ BulkRevokeRelations(lastOp'.req))
       => /\ lastOp'.outcome = "OK"
          /\ \A i \in 1..Len(lastOp'.req) :
                ~\E t \in tuples' : MatchTuple(t, lastOp'.req[i])
          /\ tuples' = {t \in tuples :
                          \A i \in 1..Len(lastOp'.req) : ~MatchTuple(t, lastOp'.req[i])}]_vars

\* the rows stored on the (namespace, objectId, relation) of request r
RowsOn(r) ==
    {t \in tuples : t.namespace = r.namespace /\ t.objectId = r.objectId
                                              /\ t.relation = r.relation}

\* the rows on r are what successful grants of distinct subjects without an
\* expiry leave: active, non-expiring, one row per subject
GrantedOnce(r) ==
    /\ \A t \in RowsOn(r) : t.isActive /\ t.expiresAt = {}
    /\ \A t, u \in RowsOn(r) : Key6(t) = Key6(u) => t = u

SubjectOf(t) ==
    [namespace |-> t.subjectNamespace, objectId |-> t.subjectObjectId,
     relation |-> t.subjectRelation]

\* C12: when the rows on one (namespace, objectId, relation) are those of
\* successful grants of a set S of distinct subjects without expiry,
\* ExpandRelation returns exactly the subjects of S with count = |S|,
\* whatever the order (the row ids) in which they were granted.
C12_ExpandReturnsGrantedSet ==
    [][\A req \in {lastOp'.req[i] : i \in 1..Len(lastOp'.req)} :
         (lastOp'.op = "ExpandRelation" /\ ExpandRelation(req) /\ GrantedOnce(req))
         => /\ lastOp'.outcome = "OK"
            /\ lastOp'.result.subjects = {SubjectOf(t) : t \in RowsOn(req)}
            /\ lastOp'.result.count = Cardinality({SubjectOf(t) : t \in RowsOn(req)})]_vars

\* an expansion over three granted subjects, a userset among them
C12_Witness ==
    /\ lastOp.op = "ExpandRelation"
    /\ GrantedOnce(lastOp.req[1])
    /\ lastOp.result.count = 3
    /\ Cardinality(lastOp.result.subjects) = 3
    /\ \E x \in lastOp.result.subjects : x.relation # ""

\* C15: a CheckRelation that misses the cache and gets its answer from the
\* store leaves that boolean in the cache under the key built from
\* namespace:objectId#relation@subjectNamespace:subjectObjectId.
C15_CheckPopulatesCache ==
    [][\A req \in {lastOp'.req[i] : i \in 1..Len(lastOp'.req)} :
         (/\ lastOp'.op = "CheckRelation"
          /\ CheckRelation(req)
          /\ buildCacheKey(CheckKeyTuple(req)) \notin DOMAIN relCache)
         => /\ buildCacheKey(CheckKeyTuple(req)) \in DOMAIN relCache'
            /\ relCache'[buildCacheKey(CheckKeyTuple(req))] = lastOp'.result.allowed]_vars

\* C16: a successful GrantRelation or RevokeRelation deletes the cache entry
\* of the 5-tuple it affects, and a CheckRelation issued right after the
\* mutation answers what the store holds.
C16_MutationInvalidatesCache ==
    /\ [][\A req \in {lastOp'.req[i] : i \in 1..Len(lastOp'.req)} :
            (/\ lastOp'.op \in {"GrantRelation", "RevokeRelation"}
             /\ lastOp'.outcome = "OK"
             /\ GrantRelation(req) \/ RevokeRelation(req))
            => \E i \in 1..Len(lastOp'.cache) :
                  lastOp'.cache[i] = CacheCall("Delete", buildCacheKey(CheckKeyTuple(req)))]_vars
    /\ [][\A req \in {lastOp'.req[i] : i \in 1..Len(lastOp'.req)} :
            (/\ lastOp'.op = "CheckRelation"
             /\ CheckRelation(req)
             /\ lastOp.op \in {"GrantRelation", "RevokeRelation"}
             /\ lastOp.outcome = "OK"
             /\ Key5(lastOp.req[1]) = req)
            => lastOp'.result.allowed = CheckPermission(req)]_vars

\* a batch has returned in which a missing item came before a stored one
C11_Witness ==
    /\ lastOp.op = "BulkRevokeRelations"
    /\ lastOp.outcome = "OK"
    /\ \E i, j \in 1..Len(lastOp.req) :
          /\ i < j
          /\ lastOp.result.items[i] = "ErrPermissionNotFound"
          /\ lastOp.result.items[j] = "OK"

---------------------------------------------------------------------------
(* Requests of the role service *)

SystemProjectID == "system"

Users     == {"u1"}                \* rows of table users (not changed here)
UserIds   == Users \cup {"ghost"}  \* "ghost" is the id of no user
RoleIds   == 1..MaxRoles
RoleCodes == {"admin", "editor"}

\* the codes of the permission config file
PermissionCatalog == {"users.view", "users.delete"}

RoleProjectIds       == {{}, {SystemProjectID}}
AssignmentProjectIds == {{}, {"p1"}}

\* every code and scope with catalogued permissions, and one request that
\* names a permission code the catalog does not have
CreateRoleReqs ==
    [code : RoleCodes, name : {"Administrator"}, projectId : RoleProjectIds,
     permissions : {<<"users.view", "users.delete">>}]
    \cup {[code |-> "admin", name |-> "Administrator", projectId |-> {SystemProjectID},
           permissions |-> <<"reports.export">>]}

UpdateRoleReqs ==
    {[name |-> "Renamed", permissions |-> <<>>, isActive |-> {FALSE}],
     [name |-> "Renamed", permissions |-> <<"reports.export">>, isActive |-> {}]}

AssignReqs ==
    [userId : Users, roleId : RoleIds, projectId : AssignmentProjectIds]
    \cup [userId : UserIds \ Users, roleId : RoleIds, projectId : {{}}]

---------------------------------------------------------------------------
(* model.Role, model.UserRole and the permissions column *)

JSONNull == [null |-> TRUE]

PermissionsToJSON(perms) ==
    IF Len(perms) = 0 THEN JSONNull ELSE [array |-> perms]

PermissionsFromJSON(data) ==
    IF data = JSONNull THEN <<>> ELSE data.array

\* the zero value of model.Role
ZeroRole ==
    [id |-> 0, code |-> "", name |-> "", isActive |-> FALSE,
     projectId |-> {}, permissions |-> JSONNull]

\* CreateRoleReq.ToModel, with the primary key the repository fills in
CreateRoleReqToModel(id, req) ==
    [id |-> id, code |-> req.code, name |-> req.name, isActive |-> TRUE,
     projectId |-> req.projectId, permissions |-> PermissionsToJSON(req.permissions)]

\* an update that builds the role anew from the request, which names no project
ApplyToFreshRole(req, m) ==
    [m EXCEPT !.name = req.name,
              !.permissions = PermissionsToJSON(req.permissions),
              !.projectId = {},
              !.isActive = IF req.isActive # {} THEN (CHOOSE b \in req.isActive : TRUE)
                           ELSE m.isActive]

\* UpdateRoleReq.ApplyTo
ApplyTo(req, m) ==
    [m EXCEPT !.name = req.name,
              !.permissions = PermissionsToJSON(req.permissions),
              !.isActive = IF req.isActive # {} THEN (CHOOSE b \in req.isActive : TRUE)
                           ELSE m.isActive]

\* the guard without its test of the caller
SystemRoleProtectedForAll(projectID, isSuperAdmin) ==
    projectID # {} /\ projectID = {SystemProjectID} /\ isSuperAdmin

\* the guard of every role mutation: a system project id and no super admin
SystemRoleProtected(projectID, isSuperAdmin) ==
    projectID # {} /\ projectID = {SystemProjectID} /\ ~isSuperAdmin

---------------------------------------------------------------------------
(* permission.Registry, roleRepository, userRoleRepository *)

ValidateCodes(codes) ==
    IF \E i \in 1..Len(codes) : codes[i] # "" /\ codes[i] \notin PermissionCatalog
    THEN "invalid permission code"
    ELSE ""

FindOneById(id) == {r \in roles : r.id = id}

\* the lookup on the name column instead of the code column
FindByCodeInNames(code) == {r \in roles : r.name = code}

FindByCode(code) == {r \in roles : r.code = code}

\* WHERE project_id IS NULL, or WHERE project_id = ?
MatchProject(ur, projectId) ==
    IF projectId = {} THEN ur.projectId = {} ELSE ur.projectId = projectId

FindByUserIDAndRoleID(userId, roleId, projectId) ==
    {ur \in BagToSet(userRoles) : ur.userId = userId /\ ur.roleId = roleId /\ MatchProject(ur, projectId)}

\* a user_roles bag without the rows in the set gone
WithoutRows(bag, gone) == [ur \in BagToSet(bag) \ gone |-> bag[ur]]

DeleteByUserIDAndRoleID(userId, roleId, projectId) ==
    WithoutRows(userRoles, FindByUserIDAndRoleID(userId, roleId, projectId))

\* a user_roles row as the query hands it back, its Role association loaded
WithRole(ur, role) ==
    [userId |-> ur.userId, roleId |-> ur.roleId, projectId |-> ur.projectId, Role |-> role]

\* FindByUserID: WHERE user_id = ?, no Preload, so Role stays the zero value
FindByUserID(userID) ==
    {WithRole(ur, ZeroRole) : ur \in {x \in BagToSet(userRoles) : x.userId = userID}}

\* a fresh primary key of a role; no query of the table depends on its order
NewId(used, max) == CHOOSE i \in (1..max) \ used : \A j \in (1..max) \ used : i <= j

---------------------------------------------------------------------------
(* RoleSvc *)

CreateRole(req, isSuperAdmin) ==
    LET call == <<[code |-> req.code, name |-> req.name, projectId |-> req.projectId,
                   permissions |-> req.permissions, isSuperAdmin |-> isSuperAdmin]>>
    IN  IF SystemRoleProtected(req.projectId, isSuperAdmin)
        THEN /\ lastOp' = Returned("CreateRole", call, "ErrSystemRoleProtected", NoResult)
             /\ UNCHANGED <<cachedFrom, authVars, inflight, failures, relVars, roleVars>>
        ELSE IF ValidateCodes(req.permissions) # ""
        THEN /\ lastOp' = Returned("CreateRole", call, "ErrInvalidPermission", NoResult)
             /\ UNCHANGED <<cachedFrom, authVars, inflight, failures, relVars, roleVars>>
        ELSE IF FindByCode(req.code) # {}
        THEN /\ lastOp' = Returned("CreateRole", call, "ErrRoleConflict", NoResult)
             /\ UNCHANGED <<cachedFrom, authVars, inflight, failures, relVars, roleVars>>
        ELSE IF \E r \in roles : r.code = req.code
        THEN \* the unique index on roles.code refuses the insert
             /\ lastOp' = Returned("CreateRole", call, "ErrCreateRole", NoResult)
             /\ UNCHANGED <<cachedFrom, authVars, inflight, failures, relVars, roleVars>>
        ELSE /\ Cardinality(roles) < MaxRoles
             /\ LET created == CreateRoleReqToModel(NewId({r.id : r \in roles}, MaxRoles), req)
                IN  /\ roles' = roles \cup {created}
                    /\ lastOp' = Returned("CreateRole", call, "OK", [role |-> created])
             /\ UNCHANGED <<cachedFrom, authVars, inflight, failures, relVars, userRoles, permCache, pendingClear>>

UpdateRole(roleID, req, isSuperAdmin) ==
    LET call == <<[roleId |-> roleID, name |-> req.name, permissions |-> req.permissions,
                   isActive |-> req.isActive, isSuperAdmin |-> isSuperAdmin]>>
        found == FindOneById(roleID)
    IN  IF found = {}
        THEN /\ lastOp' = Returned("UpdateRole", call, "ErrRoleNotFound", NoResult)
             /\ UNCHANGED <<cachedFrom, authVars, inflight, failures, relVars, roleVars>>
        ELSE LET role == CHOOSE r \in found : TRUE
             IN  IF SystemRoleProtected(role.projectId, isSuperAdmin)
                 THEN /\ lastOp' = Returned("UpdateRole", call, "ErrSystemRoleProtected", NoResult)
                      /\ UNCHANGED <<cachedFrom, authVars, inflight, failures, relVars, roleVars>>
                 ELSE IF ValidateCodes(req.permissions) # ""
                 THEN /\ lastOp' = Returned("UpdateRole", call, "ErrInvalidPermission", NoResult)
                      /\ UNCHANGED <<cachedFrom, authVars, inflight, failures, relVars, roleVars>>
                 ELSE /\ roles' = (roles \ {role}) \cup {ApplyTo(req, role)}
                      /\ lastOp' = Returned("UpdateRole", call, "OK", [role |-> ApplyTo(req, role)])
                      /\ UNCHANGED <<cachedFrom, authVars, inflight, failures, relVars, userRoles, permCache, pendingClear>>

\* DeleteById on roles; user_roles rows go with their role (the foreign key
\* of UserRole.Role is declared OnDelete:CASCADE)
DeleteRole(roleID, isSuperAdmin) ==
    LET call == <<[roleId |-> roleID, isSuperAdmin |-> isSuperAdmin]>>
        found == FindOneById(roleID)
    IN  IF found = {}
        THEN /\ lastOp' = Returned("DeleteRole", call, "ErrRoleNotFound", NoResult)
             /\ UNCHANGED <<cachedFrom, authVars, inflight, failures, relVars, roleVars>>
        ELSE IF \E r \in found : SystemRoleProtected(r.projectId, isSuperAdmin)
        THEN /\ lastOp' = Returned("DeleteRole", call, "ErrSystemRoleProtected", NoResult)
             /\ UNCHANGED <<cachedFrom, authVars, inflight, failures, relVars, roleVars>>
        ELSE /\ roles' = roles \ found
             /\ userRoles' = WithoutRows(userRoles,
                                {ur \in BagToSet(userRoles) : ur.roleId = roleID})
             /\ lastOp' = Returned("DeleteRole", call, "OK", NoResult)
             /\ UNCHANGED <<cachedFrom, authVars, inflight, failures, relVars, permCache, pendingClear>>

\* `go s.clearUserPermissionsCache(userID)`
\* no goroutine is started
SpawnNothing(userID) == pendingClear

SpawnClear(userID) == [pendingClear EXCEPT ![userID] = @ + 1]

\* an assignment that starts the cache clearing before it looks for an
\* existing row, so that a refused duplicate starts one too
AssignRoleToUserClearsFirst(req, isSuperAdmin) ==
    LET call == <<[userId |-> req.userId, roleId |-> req.roleId, projectId |-> req.projectId,
                   isSuperAdmin |-> isSuperAdmin]>>
        found == FindOneById(req.roleId)
    IN  IF req.userId \notin Users
        THEN /\ lastOp' = Returned("AssignRoleToUser", call, "ErrUserNotFound", NoResult)
             /\ UNCHANGED <<cachedFrom, authVars, inflight, failures, relVars, roleVars>>
        ELSE IF found = {}
        THEN /\ lastOp' = Returned("AssignRoleToUser", call, "ErrRoleNotFound", NoResult)
             /\ UNCHANGED <<cachedFrom, authVars, inflight, failures, relVars, roleVars>>
        ELSE IF \E r \in found : SystemRoleProtected(r.projectId, isSuperAdmin)
        THEN /\ lastOp' = Returned("AssignRoleToUser", call, "ErrSystemRoleProtected", NoResult)
             /\ UNCHANGED <<cachedFrom, authVars, inflight, failures, relVars, roleVars>>
        ELSE IF FindByUserIDAndRoleID(req.userId, req.roleId, req.projectId) # {}
        THEN /\ pendingClear[req.userId] < MaxPending
             /\ pendingClear' = SpawnClear(req.userId)
             /\ lastOp' = Returned("AssignRoleToUser", call, "ErrConflict", NoResult)
             /\ UNCHANGED <<cachedFrom, authVars, inflight, failures, relVars, roles, userRoles, permCache>>
        ELSE /\ BagCardinality(userRoles) < MaxAssignments
             /\ pendingClear[req.userId] < MaxPending
             /\ LET created == [userId |-> req.userId, roleId |-> req.roleId,
                                projectId |-> req.projectId]
                IN  /\ userRoles' = userRoles (+) SetToBag({created})
                    /\ lastOp' = Returned("AssignRoleToUser", call, "OK", [userRole |-> created])
             /\ pendingClear' = SpawnClear(req.userId)
             /\ UNCHANGED <<cachedFrom, authVars, inflight, failures, relVars, roles, permCache>>

AssignRoleToUser(req, isSuperAdmin) ==
    LET call == <<[userId |-> req.userId, roleId |-> req.roleId, projectId |-> req.projectId,
                   isSuperAdmin |-> isSuperAdmin]>>
        found == FindOneById(req.roleId)
    IN  IF req.userId \notin Users
        THEN /\ lastOp' = Returned("AssignRoleToUser", call, "ErrUserNotFound", NoResult)
             /\ UNCHANGED <<cachedFrom, authVars, inflight, failures, relVars, roleVars>>
        ELSE IF found = {}
        THEN /\ lastOp' = Returned("AssignRoleToUser", call, "ErrRoleNotFound", NoResult)
             /\ UNCHANGED <<cachedFrom, authVars, inflight, failures, relVars, roleVars>>
        ELSE IF \E r \in found : SystemRoleProtected(r.projectId, isSuperAdmin)
        THEN /\ lastOp' = Returned("AssignRoleToUser", call, "ErrSystemRoleProtected", NoResult)
             /\ UNCHANGED <<cachedFrom, authVars, inflight, failures, relVars, roleVars>>
        ELSE IF FindByUserIDAndRoleID(req.userId, req.roleId, req.projectId) # {}
        THEN /\ lastOp' = Returned("AssignRoleToUser", call, "ErrConflict", NoResult)
             /\ UNCHANGED <<cachedFrom, authVars, inflight, failures, relVars, roleVars>>
        ELSE /\ BagCardinality(userRoles) < MaxAssignments
             /\ pendingClear[req.userId] < MaxPending
             /\ LET created == [userId |-> req.userId, roleId |-> req.roleId,
                                projectId |-> req.projectId]
                IN  /\ userRoles' = userRoles (+) SetToBag({created})
                    /\ lastOp' = Returned("AssignRoleToUser", call, "OK", [userRole |-> created])
             /\ pendingClear' = SpawnClear(req.userId)
             /\ UNCHANGED <<cachedFrom, authVars, inflight, failures, relVars, roles, permCache>>

RemoveRoleFromUser(req, isSuperAdmin) ==
    LET call == <<[userId |-> req.userId, roleId |-> req.roleId, projectId |-> req.projectId,
                   isSuperAdmin |-> isSuperAdmin]>>
        found == FindOneById(req.roleId)
    IN  IF found = {}
        THEN /\ lastOp' = Returned("RemoveRoleFromUser", call, "ErrRoleNotFound", NoResult)
             /\ UNCHANGED <<cachedFrom, authVars, inflight, failures, relVars, roleVars>>
        ELSE IF \E r \in found : SystemRoleProtected(r.projectId, isSuperAdmin)
        THEN /\ lastOp' = Returned("RemoveRoleFromUser", call, "ErrSystemRoleProtected", NoResult)
             /\ UNCHANGED <<cachedFrom, authVars, inflight, failures, relVars, roleVars>>
        ELSE IF FindByUserIDAndRoleID(req.userId, req.roleId, req.projectId) = {}
        THEN /\ lastOp' = Returned("RemoveRoleFromUser", call, "ErrNotFound", NoResult)
             /\ UNCHANGED <<cachedFrom, authVars, inflight, failures, relVars, roleVars>>
        ELSE /\ pendingClear[req.userId] < MaxPending
             /\ userRoles' = DeleteByUserIDAndRoleID(req.userId, req.roleId, req.projectId)
             /\ pendingClear' = SpawnClear(req.userId)
             /\ lastOp' = Returned("RemoveRoleFromUser", call, "OK", NoResult)
             /\ UNCHANGED <<cachedFrom, authVars, inflight, failures, relVars, roles, permCache>>

buildPermissionKey(permissionCode, projectID) ==
    LET projectKey == IF projectID # {} THEN (CHOOSE p \in projectID : TRUE)
                      ELSE SystemProjectID
    IN  projectKey \o "/" \o permissionCode

userPermissionsCacheKey(userID) == "user_permissions:" \o userID

\* the same loop run over the roles table instead of the user's assignments
PermissionsFromAllRoles(userID) ==
    LET keys == UNION {{buildPermissionKey(PermissionsFromJSON(r.permissions)[i], r.projectId) :
                          i \in 1..Len(PermissionsFromJSON(r.permissions))} : r \in roles}
    IN  [k \in keys |-> TRUE]

\* the map GetUserPermissions builds from the store on a cache miss
PermissionsFromStore(userID) ==
    LET keys == UNION {{buildPermissionKey(PermissionsFromJSON(ur.Role.permissions)[i], ur.projectId) :
                          i \in 1..Len(PermissionsFromJSON(ur.Role.permissions))} :
                       ur \in FindByUserID(userID)}
    IN  [k \in keys |-> TRUE]

GetUserPermissions(userID) ==
    LET cacheKey == userPermissionsCacheKey(userID)
    IN  IF cacheKey \in DOMAIN permCache
        THEN /\ lastOp' = ReturnedVia("GetUserPermissions", <<[userId |-> userID]>>, "OK",
                                      [permissions |-> permCache[cacheKey]],
                                      <<CacheCall("Get", cacheKey)>>)
             /\ UNCHANGED <<cachedFrom, authVars, inflight, failures, relVars, roleVars>>
        ELSE /\ permCache' = [k \in DOMAIN permCache \cup {cacheKey} |->
                                IF k = cacheKey THEN PermissionsFromStore(userID) ELSE permCache[k]]
             /\ lastOp' = ReturnedVia("GetUserPermissions", <<[userId |-> userID]>>, "OK",
                                      [permissions |-> PermissionsFromStore(userID)],
                                      <<CacheCall("Get", cacheKey), CacheSetCall(cacheKey, CacheDefaultTTL)>>)
             /\ UNCHANGED <<cachedFrom, authVars, inflight, failures, relVars, roles, userRoles, pendingClear>>

\* s.cache.Delete of the key
CacheDelete(cache, key) == [k \in DOMAIN cache \ {key} |-> cache[k]]

\* the goroutine started by a role assignment or removal runs
clearUserPermissionsCache(userID) ==
    /\ pendingClear[userID] > 0
    /\ pendingClear' = [pendingClear EXCEPT ![userID] = @ - 1]
    /\ permCache' = CacheDelete(permCache, userPermissionsCacheKey(userID))
    /\ UNCHANGED <<cachedFrom, authVars, inflight, failures, relVars, roles, userRoles, lastOp>>

\* an entry written with CacheDefaultTTL reaches the end of its lifetime
CacheExpire(userID) ==
    /\ userPermissionsCacheKey(userID) \in DOMAIN permCache
    /\ permCache' = CacheDelete(permCache, userPermissionsCacheKey(userID))
    /\ UNCHANGED <<cachedFrom, authVars, inflight, failures, relVars, roles, userRoles, pendingClear, lastOp>>

---------------------------------------------------------------------------
(* The role service on its own *)

NextRole ==
    \/ \E req \in CreateRoleReqs, isSuperAdmin \in BOOLEAN : CreateRole(req, isSuperAdmin)
    \/ \E id \in RoleIds, req \in UpdateRoleReqs, isSuperAdmin \in BOOLEAN :
          UpdateRole(id, req, isSuperAdmin)
    \/ \E id \in RoleIds, isSuperAdmin \in BOOLEAN : DeleteRole(id, isSuperAdmin)
    \/ \E req \in AssignReqs, isSuperAdmin \in BOOLEAN : AssignRoleToUser(req, isSuperAdmin)
    \/ \E req \in AssignReqs, isSuperAdmin \in BOOLEAN : RemoveRoleFromUser(req, isSuperAdmin)
    \/ \E u \in Users : GetUserPermissions(u)
    \/ \E u \in Users : clearUserPermissionsCache(u)
    \/ \E u \in Users : CacheExpire(u)

SpecRole == Init /\ [][NextRole]_vars

---------------------------------------------------------------------------
(* Overlapping calls: GrantRelation and AssignRoleToUser read the store,   *)
(* decide, and insert in a second round trip; nothing locks the table in   *)
(* between, so another caller's step can fall between the two.             *)

ConcGrantReqs == {WithExpiry(k, {}) : k \in {KAlice, KMember}}

\* GrantRelation up to its duplicate check: validation, FindByTuple, IsValid
GrantLookup(c, req) ==
    /\ inflight[c] = Idle
    /\ UNCHANGED <<cachedFrom, authVars, failures>>
    /\ IF validateRelationRequest(req) # ""
       THEN /\ lastOp' = Returned("GrantRelation", <<req>>, "ErrInvalidPermission", NoResult)
            /\ UNCHANGED inflight
       ELSE IF \E t \in FindByTuple(tuples, req) : IsValid(t)
       THEN /\ lastOp' = Returned("GrantRelation", <<req>>, "ErrPermissionConflict", NoResult)
            /\ UNCHANGED inflight
       ELSE /\ inflight' = [inflight EXCEPT ![c] = [pc |-> "create", op |-> "GrantRelation",
                                                     req |-> req]]
            /\ UNCHANGED lastOp
    /\ UNCHANGED <<relVars, roleVars>>

\* the insert of GrantRelation made to look the key up again under a lock
GrantCreateRechecked(c) ==
    /\ inflight[c].pc = "create"
    /\ UNCHANGED <<cachedFrom, authVars, failures>>
    /\ inflight[c].op = "GrantRelation"
    /\ IF \E t \in FindByTuple(tuples, inflight[c].req) : IsValid(t)
       THEN /\ lastOp' = Returned("GrantRelation", <<inflight[c].req>>,
                                  "ErrPermissionConflict", NoResult)
            /\ UNCHANGED tuples
       ELSE \E id \in FreeIds :
            /\ tuples' = tuples \cup {NewTuple(id, inflight[c].req)}
            /\ lastOp' = Returned("GrantRelation", <<inflight[c].req>>, "OK",
                                  [rows |-> {NewTuple(id, inflight[c].req)}])
    /\ inflight' = [inflight EXCEPT ![c] = Idle]
    /\ UNCHANGED <<now, relCache, roleVars>>

\* GrantRelation from tupleRepo.Create on
GrantCreate(c) ==
    /\ inflight[c].pc = "create"
    /\ UNCHANGED <<cachedFrom, authVars, failures>>
    /\ inflight[c].op = "GrantRelation"
    /\ \E id \in FreeIds :
         /\ tuples' = tuples \cup {NewTuple(id, inflight[c].req)}
         /\ lastOp' = Returned("GrantRelation", <<inflight[c].req>>, "OK",
                               [rows |-> {NewTuple(id, inflight[c].req)}])
    /\ inflight' = [inflight EXCEPT ![c] = Idle]
    /\ UNCHANGED <<now, relCache, roleVars>>

\* AssignRoleToUser up to its duplicate check
AssignLookup(c, req, isSuperAdmin) ==
    LET call == <<[userId |-> req.userId, roleId |-> req.roleId, projectId |-> req.projectId,
                   isSuperAdmin |-> isSuperAdmin]>>
        found == FindOneById(req.roleId)
    IN  /\ inflight[c] = Idle
        /\ UNCHANGED <<cachedFrom, authVars, failures>>
        /\ IF req.userId \notin Users
           THEN /\ lastOp' = Returned("AssignRoleToUser", call, "ErrUserNotFound", NoResult)
                /\ UNCHANGED inflight
           ELSE IF found = {}
           THEN /\ lastOp' = Returned("AssignRoleToUser", call, "ErrRoleNotFound", NoResult)
                /\ UNCHANGED inflight
           ELSE IF \E r \in found : SystemRoleProtected(r.projectId, isSuperAdmin)
           THEN /\ lastOp' = Returned("AssignRoleToUser", call, "ErrSystemRoleProtected", NoResult)
                /\ UNCHANGED inflight
           ELSE IF FindByUserIDAndRoleID(req.userId, req.roleId, req.projectId) # {}
           THEN /\ lastOp' = Returned("AssignRoleToUser", call, "ErrConflict", NoResult)
                /\ UNCHANGED inflight
           ELSE /\ inflight' = [inflight EXCEPT ![c] = [pc |-> "create",
                                                         op |-> "AssignRoleToUser",
                                                         req |-> call[1]]]
                /\ UNCHANGED lastOp
        /\ UNCHANGED <<relVars, roleVars>>

\* AssignRoleToUser from userRoleRepo.Create on; the foreign key to roles
\* refuses the row of a role that is no longer stored
AssignCreate(c) ==
    /\ inflight[c].pc = "create"
    /\ UNCHANGED <<cachedFrom, authVars, failures>>
    /\ inflight[c].op = "AssignRoleToUser"
    /\ inflight' = [inflight EXCEPT ![c] = Idle]
    /\ IF FindOneById(inflight[c].req.roleId) = {}
       THEN /\ lastOp' = Returned("AssignRoleToUser", <<inflight[c].req>>,
                                  "ErrRoleAssignment", NoResult)
            /\ UNCHANGED <<relVars, roleVars>>
       ELSE /\ BagCardinality(userRoles) < MaxAssignments
            /\ pendingClear[inflight[c].req.userId] < MaxPending
            /\ LET created == [userId |-> inflight[c].req.userId,
                               roleId |-> inflight[c].req.roleId,
                               projectId |-> inflight[c].req.projectId]
               IN  /\ userRoles' = userRoles (+) SetToBag({created})
                   /\ lastOp' = Returned("AssignRoleToUser", <<inflight[c].req>>, "OK",
                                         [userRole |-> created])
            /\ pendingClear' = SpawnClear(inflight[c].req.userId)
            /\ UNCHANGED <<relVars, roles, permCache>>

\* overlapping grants, with revokes between them
NextConcGrant ==
    \/ \E c \in Callers, req \in ConcGrantReqs : GrantLookup(c, req)
    \/ \E c \in Callers : GrantCreate(c)
    \/ \E req \in {KAlice, KMember} : RevokeRelation(req)

SpecConcGrant == Init /\ [][NextConcGrant]_vars

ConcCreateRoleReqs == {req \in CreateRoleReqs : req.code = "admin"}

ConcAssignReqs == {req \in AssignReqs : req.roleId = 1}

\* overlapping assignments, with removals between them
NextConcAssign ==
    \/ \E c \in Callers, req \in ConcAssignReqs, isSuperAdmin \in BOOLEAN :
          AssignLookup(c, req, isSuperAdmin)
    \/ \E c \in Callers : AssignCreate(c)
    \/ \E req \in ConcCreateRoleReqs : CreateRole(req, TRUE)
    \/ \E req \in ConcAssignReqs, isSuperAdmin \in BOOLEAN : RemoveRoleFromUser(req, isSuperAdmin)
    \/ \E u \in Users : clearUserPermissionsCache(u)

SpecConcAssign == Init /\ [][NextConcAssign]_vars

---------------------------------------------------------------------------
(* Properties of the role service, checked under SpecRole *)

\* the arguments of the call that lastOp records, when it took one request
CallOf(op) == {op.req[i] : i \in 1..Len(op.req)}

\* "{scope}/{code}", scope "system" for an assignment without a project
ScopedKey(projectId, code) ==
    (IF projectId = {} THEN "system" ELSE CHOOSE p \in projectId : TRUE) \o "/" \o code

\* the keys one assignment contributes through the stored role it names
KeysOfAssignment(ur) ==
    UNION {{ScopedKey(ur.projectId, PermissionsFromJSON(r.permissions)[i]) :
              i \in 1..Len(PermissionsFromJSON(r.permissions))} :
           r \in {x \in roles : x.id = ur.roleId}}

\* the keys of all the assignments user u holds
KeysOfUser(u) ==
    UNION {KeysOfAssignment(ur) : ur \in {x \in BagToSet(userRoles) : x.userId = u}}

\* C7: a GetUserPermissions(U) that misses the cache returns the map with
\* key "{scope}/{code}" set to true exactly for the pairs where U holds an
\* assignment of scope `scope` to a role whose permission list has `code`.
C7_MissReturnsRolePermissions ==
    [][\A call \in CallOf(lastOp') :
         (/\ lastOp'.op = "GetUserPermissions"
          /\ GetUserPermissions(call.userId)
          /\ userPermissionsCacheKey(call.userId) \notin DOMAIN permCache)
         => lastOp'.result.permissions = [k \in KeysOfUser(call.userId) |-> TRUE]]_vars

\* the keys that only the assignment named by request rm gave to its user,
\* seen from a state in which that assignment is gone
KeysOnlyFrom(rm) == KeysOfAssignment(rm) \ KeysOfUser(rm.userId)

C9_SystemRoleCreation ==
    [][\A call \in CallOf(lastOp') :
         (/\ lastOp'.op = "CreateRole"
          /\ CreateRole(call, call.isSuperAdmin)
          /\ call.projectId = {"system"})
         => IF ~call.isSuperAdmin
            THEN lastOp'.outcome = "ErrSystemRoleProtected" /\ roles' = roles
            ELSE (ValidateCodes(call.permissions) = "" /\ FindByCode(call.code) = {})
                 => /\ lastOp'.outcome = "OK"
                    /\ \E r \in roles' \ roles :
                          /\ r.code = call.code
                          /\ r.projectId = {"system"}
                          /\ PermissionsFromJSON(r.permissions) = call.permissions]_vars

C9_Witness ==
    /\ lastOp.op = "CreateRole"
    /\ lastOp.outcome = "ErrSystemRoleProtected"
    /\ ~lastOp.req[1].isSuperAdmin
    /\ \E r \in roles : r.projectId = {"system"}

\* no two stored roles share a code
UniqueRoleCodes == \A r1, r2 \in roles : r1.code = r2.code => r1 = r2

RoleMutations == {"UpdateRole", "DeleteRole", "AssignRoleToUser", "RemoveRoleFromUser"}

\* the step is a role mutation by a caller who is no super admin on a role
\* stored with projectId "system"
OnStoredSystemRole(call) ==
    /\ lastOp'.op \in RoleMutations
    /\ ~call.isSuperAdmin
    /\ \E r \in roles : r.id = call.roleId /\ r.projectId = {"system"}

\* C10 as stated: every such mutation returns ErrSystemRoleProtected and
\* leaves the roles and the assignments as they were.
C10_SystemRoleGuardAlways ==
    [][\A call \in CallOf(lastOp') :
         OnStoredSystemRole(call)
         => /\ lastOp'.outcome = "ErrSystemRoleProtected"
            /\ roles' = roles
            /\ userRoles' = userRoles]_vars

\* C10, amended: the same, except that AssignRoleToUser looks the user up
\* first and returns ErrUserNotFound for a user id that is not stored.
C10_SystemRoleGuard ==
    [][\A call \in CallOf(lastOp') :
         OnStoredSystemRole(call)
         => /\ lastOp'.outcome =
                 IF lastOp'.op = "AssignRoleToUser" /\ call.userId \notin Users
                 THEN "ErrUserNotFound" ELSE "ErrSystemRoleProtected"
            /\ roles' = roles
            /\ userRoles' = userRoles]_vars

C10_Witness ==
    /\ lastOp.op = "RemoveRoleFromUser"
    /\ lastOp.outcome = "ErrSystemRoleProtected"
    /\ ~lastOp.req[1].isSuperAdmin
    /\ lastOp.req[1].projectId = {"p1"}
    /\ \E r \in roles : r.id = lastOp.req[1].roleId /\ r.projectId = {"system"}
    /\ \E ur \in BagToSet(userRoles) : ur.roleId = lastOp.req[1].roleId

\* the last call was a successful assignment or removal for user u
MutationReturned(u) ==
    /\ lastOp.op \in {"AssignRoleToUser", "RemoveRoleFromUser"}
    /\ lastOp.outcome = "OK"
    /\ lastOp.req[1].userId = u

\* C20: a successful AssignRoleToUser or RemoveRoleFromUser returns with the
\* user's cache entry untouched and its delete handed to a background task;
\* in every state where the mutation has returned and the entry cached
\* before it is still there, a GetUserPermissions of that user can run and
\* answers with the cached map, from the cache alone.
C20_StaleReadAfterMutation ==
    /\ [][\A call \in CallOf(lastOp') :
            (/\ lastOp'.op \in {"AssignRoleToUser", "RemoveRoleFromUser"}
             /\ lastOp'.outcome = "OK"
             /\ \/ AssignRoleToUser(call, call.isSuperAdmin)
                \/ RemoveRoleFromUser(call, call.isSuperAdmin))
            => /\ permCache' = permCache
               /\ pendingClear'[call.userId] = pendingClear[call.userId] + 1]_vars
    /\ [](\A u \in Users :
            (MutationReturned(u) /\ userPermissionsCacheKey(u) \in DOMAIN permCache)
            => ENABLED (/\ GetUserPermissions(u)
                        /\ lastOp'.result.permissions = permCache[userPermissionsCacheKey(u)]
                        /\ lastOp'.cache = <<CacheCall("Get", userPermissionsCacheKey(u))>>
                        /\ pendingClear'[u] > 0))

\* an assignment for a user has just returned success, the entry cached for
\* that user before the call is still in the cache and the delete has not
\* run: the next GetUserPermissions of the user answers from that entry
C20_Witness ==
    /\ lastOp.op = "AssignRoleToUser"
    /\ lastOp.outcome = "OK"
    /\ userPermissionsCacheKey(lastOp.req[1].userId) \in DOMAIN permCache
    /\ pendingClear[lastOp.req[1].userId] > 0
    /\ \E ur \in BagToSet(userRoles) : ur.userId = lastOp.req[1].userId
    /\ ENABLED (/\ GetUserPermissions(lastOp.req[1].userId)
                /\ lastOp'.cache = <<CacheCall("Get", userPermissionsCacheKey(lastOp.req[1].userId))>>)

---------------------------------------------------------------------------
(* Properties of overlapping calls, checked under SpecConcGrant and        *)
(* SpecConcAssign                                                          *)

\* C14: the assignment store never holds two rows with the same (userId,
\* roleId, projectId), also when AssignRoleToUser calls for the same user
\* and role overlap.
C14_OneRowPerAssignment ==
    \A ur \in BagToSet(userRoles) : CopiesIn(ur, userRoles) <= 1

\* the valid rows stored under the natural key of req
ValidRowsAtKey(store, req) == {t \in store : Key6(t) = Key6(req) /\ t.isActive}

\* C17: a GrantRelation whose lookup saw no valid row for its key inserts
\* its row and returns success also when an overlapping GrantRelation of the
\* same key has inserted in between, which leaves two active rows for the key.
C17_OverlappingGrantsBothInsert ==
    [][\A c \in Callers :
         GrantCreate(c)
         => /\ lastOp'.outcome = "OK"
            /\ Cardinality(ValidRowsAtKey(tuples', inflight[c].req))
                 = Cardinality(ValidRowsAtKey(tuples, inflight[c].req)) + 1]_vars

\* both callers were past their lookup of one key before either inserted:
\* the second has returned success and the key has two active rows
C17_Witness ==
    /\ lastOp.op = "GrantRelation"
    /\ lastOp.outcome = "OK"
    /\ Cardinality(ValidRowsAtKey(tuples, lastOp.req[1])) = 2
    /\ \A c \in Callers : inflight[c] = Idle

---------------------------------------------------------------------------
(* Failing store and cache calls: each action below is a handler in which  *)
(* one call on the store or on the cache returns an error.                 *)

MaxFailures == 1

\* the call that failed and the function that made it
Failed(call, by) == [call |-> call, by |-> by]

\* one more call has returned an error
Fails(call, by) ==
    /\ Len(failures) < MaxFailures
    /\ failures' = Append(failures, Failed(call, by))

\* CheckRelation when cache.Get returns an error other than ErrCacheNil, or
\* when CheckPermission fails after a miss
CheckRelationFailing(req, call) ==
    /\ call \in {"cache.Get", "tupleRepo.CheckPermission"}
    /\ call = "tupleRepo.CheckPermission" => buildCacheKey(CheckKeyTuple(req)) \notin DOMAIN relCache
    /\ Fails(call, "CheckRelation")
    /\ lastOp' = ReturnedVia("CheckRelation", <<req>>, "ErrInternal", NoResult,
                             <<CacheCall("Get", buildCacheKey(CheckKeyTuple(req)))>>)
    /\ UNCHANGED <<cachedFrom, authVars, inflight, relVars, roleVars>>

\* the outcome of one RevokeRelation call in which a store call fails; the
\* delete is reached only when the lookup found a row
RevokeFailingOn(store, req, call) ==
    IF call = "tupleRepo.FindByTuple" THEN "ErrInternal"
    ELSE IF FindByTuple(store, req) = {} THEN "ErrPermissionNotFound"
    ELSE "ErrRevokePermission"

RevokeRelationFailing(req, call) ==
    /\ call \in {"tupleRepo.FindByTuple", "tupleRepo.DeleteByTuple"}
    /\ RevokeFailingOn(tuples, req, call) # "ErrPermissionNotFound"
    /\ Fails(call, "RevokeRelation")
    /\ lastOp' = Returned("RevokeRelation", <<req>>, RevokeFailingOn(tuples, req, call), NoResult)
    /\ UNCHANGED <<cachedFrom, authVars, inflight, relVars, roleVars>>

\* a batch run in one transaction that the failing item rolls back
BulkRevokeRelationsFailingRolledBack(reqs, i, call) ==
    LET before == BulkRevokeFrom(tuples, SubSeq(reqs, 1, i - 1), 1)
    IN  /\ i \in 1..Len(reqs)
        /\ call \in {"tupleRepo.FindByTuple", "tupleRepo.DeleteByTuple"}
        /\ RevokeFailingOn(before, reqs[i], call) # "ErrPermissionNotFound"
        /\ Fails(call, "BulkRevokeRelations")
        /\ tuples' = tuples
        /\ lastOp' = Returned("BulkRevokeRelations", reqs,
                              RevokeFailingOn(before, reqs[i], call), NoResult)
        /\ UNCHANGED <<cachedFrom, authVars, inflight, now, relCache, roleVars>>

\* BulkRevokeRelations when a store call of item i fails: the items before i
\* are revoked, the error of item i is returned, the rest is not looked at
BulkRevokeRelationsFailing(reqs, i, call) ==
    LET before == BulkRevokeFrom(tuples, SubSeq(reqs, 1, i - 1), 1)
    IN  /\ i \in 1..Len(reqs)
        /\ call \in {"tupleRepo.FindByTuple", "tupleRepo.DeleteByTuple"}
        /\ RevokeFailingOn(before, reqs[i], call) # "ErrPermissionNotFound"
        /\ Fails(call, "BulkRevokeRelations")
        /\ tuples' = before
        /\ lastOp' = Returned("BulkRevokeRelations", reqs,
                              RevokeFailingOn(before, reqs[i], call), NoResult)
        /\ UNCHANGED <<cachedFrom, authVars, inflight, now, relCache, roleVars>>

\* GetUserPermissions when cache.Get fails, or after a miss when the store
\* read or cache.Set fails
GetUserPermissionsFailing(userID, call) ==
    LET cacheKey == userPermissionsCacheKey(userID)
    IN  /\ call \in {"cache.Get", "userRoleRepo.FindByUserID", "cache.Set"}
        /\ call # "cache.Get" => cacheKey \notin DOMAIN permCache
        /\ Fails(call, "GetUserPermissions")
        /\ lastOp' = ReturnedVia("GetUserPermissions", <<[userId |-> userID]>>, "ErrInternal",
                                 NoResult,
                                 IF call = "cache.Set"
                                 THEN <<CacheCall("Get", cacheKey), CacheSetCall(cacheKey, CacheDefaultTTL)>>
                                 ELSE <<CacheCall("Get", cacheKey)>>)
        /\ UNCHANGED <<cachedFrom, authVars, inflight, relVars, roleVars>>

\* AssignRoleToUser when the lookup of the assignment or its insert fails
AssignRoleToUserFailing(req, isSuperAdmin, call) ==
    LET args == <<[userId |-> req.userId, roleId |-> req.roleId, projectId |-> req.projectId,
                   isSuperAdmin |-> isSuperAdmin]>>
        found == FindOneById(req.roleId)
    IN  /\ call \in {"userRoleRepo.FindByUserIDAndRoleID", "userRoleRepo.Create"}
        /\ req.userId \in Users
        /\ found # {}
        /\ \A r \in found : ~SystemRoleProtected(r.projectId, isSuperAdmin)
        /\ call = "userRoleRepo.Create"
              => FindByUserIDAndRoleID(req.userId, req.roleId, req.projectId) = {}
        /\ Fails(call, "AssignRoleToUser")
        /\ lastOp' = Returned("AssignRoleToUser", args,
                              IF call = "userRoleRepo.Create" THEN "ErrRoleAssignment"
                              ELSE "ErrInternal", NoResult)
        /\ UNCHANGED <<cachedFrom, authVars, inflight, relVars, roleVars>>

\* RemoveRoleFromUser when the lookup of the assignment or its delete fails
RemoveRoleFromUserFailing(req, isSuperAdmin, call) ==
    LET args == <<[userId |-> req.userId, roleId |-> req.roleId, projectId |-> req.projectId,
                   isSuperAdmin |-> isSuperAdmin]>>
        found == FindOneById(req.roleId)
    IN  /\ call \in {"userRoleRepo.FindByUserIDAndRoleID", "userRoleRepo.DeleteByUserIDAndRoleID"}
        /\ found # {}
        /\ \A r \in found : ~SystemRoleProtected(r.projectId, isSuperAdmin)
        /\ call = "userRoleRepo.DeleteByUserIDAndRoleID"
              => FindByUserIDAndRoleID(req.userId, req.roleId, req.projectId) # {}
        /\ Fails(call, "RemoveRoleFromUser")
        /\ lastOp' = Returned("RemoveRoleFromUser", args,
                              IF call = "userRoleRepo.DeleteByUserIDAndRoleID"
                              THEN "ErrRoleAssignment" ELSE "ErrInternal", NoResult)
        /\ UNCHANGED <<cachedFrom, authVars, inflight, relVars, roleVars>>

\* the goroutine started by a role assignment or removal runs and its
\* cache.Delete fails: the entry stays, the error goes nowhere
clearUserPermissionsCacheFailing(userID) ==
    /\ pendingClear[userID] > 0
    /\ pendingClear' = [pendingClear EXCEPT ![userID] = @ - 1]
    /\ Fails("cache.Delete", "clearUserPermissionsCache")
    /\ UNCHANGED <<cachedFrom, authVars, inflight, relVars, roles, userRoles, permCache, lastOp>>

NextFail ==
    \/ \E req \in {WithExpiry(KAlice, {})} : GrantRelation(req)
    \/ \E req \in CheckReqs, call \in {"cache.Get", "tupleRepo.CheckPermission"} :
          CheckRelationFailing(req, call)
    \/ \E req \in {KAlice}, call \in {"tupleRepo.FindByTuple", "tupleRepo.DeleteByTuple"} :
          RevokeRelationFailing(req, call)
    \/ \E reqs \in BulkRevokeReqs, i \in 1..MaxBulk,
          call \in {"tupleRepo.FindByTuple", "tupleRepo.DeleteByTuple"} :
          BulkRevokeRelationsFailing(reqs, i, call)
    \/ \E req \in ConcCreateRoleReqs : CreateRole(req, TRUE)
    \/ \E req \in ConcAssignReqs : AssignRoleToUser(req, TRUE)
    \/ \E req \in ConcAssignReqs : RemoveRoleFromUser(req, TRUE)
    \/ \E u \in Users : GetUserPermissions(u)
    \/ \E u \in Users : clearUserPermissionsCache(u)
    \/ \E u \in Users, call \in {"cache.Get", "userRoleRepo.FindByUserID", "cache.Set"} :
          GetUserPermissionsFailing(u, call)
    \/ \E req \in ConcAssignReqs,
          call \in {"userRoleRepo.FindByUserIDAndRoleID", "userRoleRepo.Create"} :
          AssignRoleToUserFailing(req, TRUE, call)
    \/ \E req \in ConcAssignReqs,
          call \in {"userRoleRepo.FindByUserIDAndRoleID", "userRoleRepo.DeleteByUserIDAndRoleID"} :
          RemoveRoleFromUserFailing(req, TRUE, call)
    \/ \E u \in Users : clearUserPermissionsCacheFailing(u)

SpecFail == Init /\ [][NextFail]_vars

\* the service calls on whose behalf a function works
ServedCalls(by) ==
    IF by = "clearUserPermissionsCache" THEN {"AssignRoleToUser", "RemoveRoleFromUser"}
    ELSE {by}

\* C19: whenever a store or cache call fails while a relation or role
\* operation is served, the cache delete of AssignRoleToUser and
\* RemoveRoleFromUser included, the operation returns an error to its caller.
C19_FailuresReported ==
    [][Len(failures') > Len(failures)
       => /\ lastOp'.op \in ServedCalls(failures'[Len(failures')].by)
          /\ lastOp'.outcome # "OK"]_vars

---------------------------------------------------------------------------
(* The cache delete of a role assignment or removal, with the Go scheduler *)
(* running every started goroutine                                         *)

NextClear ==
    \/ \E req \in ConcCreateRoleReqs : CreateRole(req, TRUE)
    \/ \E req \in ConcAssignReqs, isSuperAdmin \in BOOLEAN : AssignRoleToUser(req, isSuperAdmin)
    \/ \E req \in ConcAssignReqs, isSuperAdmin \in BOOLEAN : RemoveRoleFromUser(req, isSuperAdmin)
    \/ \E u \in Users : GetUserPermissions(u)
    \/ \E u \in Users : clearUserPermissionsCache(u)

\* a goroutine that has been started is run by the scheduler
SpecClear ==
    /\ Init
    /\ [][NextClear]_vars
    /\ \A u \in Users : WF_vars(clearUserPermissionsCache(u))

\* C21: a successful AssignRoleToUser or RemoveRoleFromUser for user U starts
\* one delete of U's user_permissions key, and every started delete is
\* eventually run; a call that fails starts no delete and leaves the cache
\* as it is. (A started delete stays pending until a delete step of U runs,
\* so "eventually run" is: from some point on nothing is pending for U, or
\* delete steps of U that remove the key occur again and again.)
C21_MutationEventuallyClears ==
    /\ [][\A call \in CallOf(lastOp') :
            (/\ lastOp'.op \in {"AssignRoleToUser", "RemoveRoleFromUser"}
             /\ \/ AssignRoleToUser(call, call.isSuperAdmin)
                \/ RemoveRoleFromUser(call, call.isSuperAdmin))
            => IF lastOp'.outcome = "OK"
               THEN pendingClear' = [pendingClear EXCEPT ![call.userId] = @ + 1]
               ELSE pendingClear' = pendingClear /\ permCache' = permCache]_vars
    /\ [][\A u \in Users : pendingClear'[u] < pendingClear[u]
                              => clearUserPermissionsCache(u)]_vars
    /\ \A u \in Users :
          \/ <>[](pendingClear[u] = 0)
          \/ []<><<clearUserPermissionsCache(u)
                   /\ userPermissionsCacheKey(u) \notin DOMAIN permCache'>>_vars

\* a removal has returned success with the user's entry cached: its delete
\* is started and has not run
C21_Witness ==
    /\ lastOp.op = "RemoveRoleFromUser"
    /\ lastOp.outcome = "OK"
    /\ pendingClear[lastOp.req[1].userId] > 0
    /\ userPermissionsCacheKey(lastOp.req[1].userId) \in DOMAIN permCache

---------------------------------------------------------------------------
(* Further properties of the relation engine, checked under SpecRel *)

\* C22: a successful RevokeRelation leaves no row with the revoked natural
\* key, valid or not, however many there were, and a GrantRelation of that
\* key that comes next never returns conflict: with a request that passes
\* validation it succeeds and its row is the only one of the key.
C22_RevokeThenGrantAgain ==
    /\ [][\A req \in CallOf(lastOp') :
            (lastOp'.op = "RevokeRelation" /\ RevokeRelation(req) /\ lastOp'.outcome = "OK")
            => /\ \A t \in tuples' : Key6(t) # Key6(req)
               /\ tuples' = {t \in tuples : Key6(t) # Key6(req)}]_vars
    /\ [][\A req \in CallOf(lastOp') :
            (/\ lastOp'.op = "GrantRelation"
             /\ GrantRelation(req)
             /\ lastOp.op = "RevokeRelation"
             /\ lastOp.outcome = "OK"
             /\ Key6(lastOp.req[1]) = Key6(req))
            => /\ lastOp'.outcome # "ErrPermissionConflict"
               /\ validateRelationRequest(req) = ""
                    => /\ lastOp'.outcome = "OK"
                       /\ {t \in tuples' : Key6(t) = Key6(req)} = lastOp'.result.rows]_vars

\* a revoke has removed two or more rows of one key together, rows of other
\* keys are still stored, and a grant of the revoked key can succeed
C22_Witness ==
    /\ lastOp.op = "RevokeRelation"
    /\ lastOp.outcome = "OK"
    /\ lastOp.result.deleted >= 2
    /\ tuples # {}
    /\ ENABLED (GrantRelation(WithExpiry(lastOp.req[1], {})) /\ lastOp'.outcome = "OK")

---------------------------------------------------------------------------
(* Grants on a key whose rows have expired *)

\* grants of the first key without an expiry and with every expiry the clock
\* can reach
ExpiringGrantReqs == {WithExpiry(KAlice, exp) : exp \in {{}} \cup {{e} : e \in 1..MaxTime}}

NextExpired ==
    \/ \E req \in ExpiringGrantReqs : GrantRelation(req)
    \/ \E req \in {Key5(KAlice)} : CheckRelation(req)
    \/ CleanupExpiredRelations
    \/ Tick

SpecExpired == Init /\ [][NextExpired]_vars

\* the key of req has stored rows and every one of them is expired
OnlyExpiredAtKey(req) ==
    /\ \E t \in tuples : Key6(t) = Key6(req)
    /\ \A t \in tuples : Key6(t) = Key6(req) => InThePast(t)

\* the last call was a successful GrantRelation whose row is still stored,
\* next to rows of its key that are all expired
GrantedOverExpired ==
    /\ lastOp.op = "GrantRelation"
    /\ lastOp.outcome = "OK"
    /\ lastOp.result.rows \subseteq tuples
    /\ \E t \in tuples \ lastOp.result.rows : Key6(t) = Key6(lastOp.req[1])
    /\ \A t \in tuples \ lastOp.result.rows : Key6(t) = Key6(lastOp.req[1]) => InThePast(t)

\* the part of C23 about GrantRelation itself
GrantOverExpiredInserts ==
    [][\A req \in CallOf(lastOp') :
         (/\ lastOp'.op = "GrantRelation"
          /\ GrantRelation(req)
          /\ validateRelationRequest(req) = ""
          /\ OnlyExpiredAtKey(req))
         => /\ lastOp'.outcome = "OK"
            /\ \E t \in tuples' \ tuples :
                  /\ Key6(t) = Key6(req)
                  /\ t.isActive
                  /\ lastOp'.result.rows = {t}
                  /\ tuples' = tuples \cup {t}]_vars

---------------------------------------------------------------------------
(* permission.Registry on its own. A *Registry is {} for nil and {r} for a *)
(* loaded registry; a []string is {} for nil and {s} for the slice s.      *)

MaxCodes == 3

Permission(name, code) == [name |-> name, code |-> code]

\* the registry NewRegistry builds from the parsed file: entries without a
\* code are left out of byCode
NewRegistry(list) ==
    [list |-> list,
     byCode |-> [c \in {list[i].code : i \in 1..Len(list)} \ {""} |->
                   CHOOSE p \in {list[i] : i \in 1..Len(list)} :
                      /\ p.code = c
                      /\ \E i \in 1..Len(list) :
                            list[i] = p /\ \A j \in (i + 1)..Len(list) : list[j].code # c]]

\* the elements a range loop visits: none for a nil slice
Range(slice) == IF slice = {} THEN <<>> ELSE CHOOSE s \in slice : TRUE

\* the loop without the skipping of empty strings
RegistryValidateCodesNoSkip(registry, codes) ==
    LET r == CHOOSE x \in registry : TRUE
        bad == {i \in 1..Len(Range(codes)) : Range(codes)[i] \notin DOMAIN r.byCode}
    IN  IF registry = {} \/ bad = {} THEN ""
        ELSE "invalid permission code: " \o Range(codes)[CHOOSE i \in bad : \A j \in bad : i <= j]

\* Registry.ValidateCodes: "" for a nil error, else the message of the
\* first code that is not empty and not in byCode
RegistryValidateCodes(registry, codes) ==
    LET r == CHOOSE x \in registry : TRUE
        bad == {i \in 1..Len(Range(codes)) :
                  Range(codes)[i] # "" /\ Range(codes)[i] \notin DOMAIN r.byCode}
    IN  IF registry = {} \/ bad = {} THEN ""
        ELSE "invalid permission code: " \o Range(codes)[CHOOSE i \in bad : \A j \in bad : i <= j]

\* the parsed files: empty, one permission, two, and one with an entry that
\* has no code
PermissionLists ==
    {<<>>,
     <<Permission("View", "view")>>,
     <<Permission("View", "view"), Permission("Edit", "edit")>>,
     <<Permission("View", "view"), Permission("Blank", "")>>}

Registries == {{}} \cup {{NewRegistry(l)} : l \in PermissionLists}

CodeLists ==
    {{}} \cup {{s} : s \in UNION {[1..n -> {"", "view", "edit", "unknown"}] : n \in 0..MaxCodes}}

\* one call of ValidateCodes
CallValidateCodes(registry, codes) ==
    /\ lastOp' = Returned("ValidateCodes", <<[registry |-> registry, codes |-> codes]>>,
                          RegistryValidateCodes(registry, codes), NoResult)
    /\ UNCHANGED <<cachedFrom, authVars, inflight, failures, relVars, roleVars>>

NextRegistry == \E registry \in Registries, codes \in CodeLists : CallValidateCodes(registry, codes)

SpecRegistry == Init /\ [][NextRegistry]_vars

\* the codes the file gave the registry
LoadedCodes(registry) ==
    UNION {{r.list[i].code : i \in 1..Len(r.list)} \ {""} : r \in registry}

\* C24: ValidateCodes returns an error if and only if the registry is not
\* nil and some non-empty element of codes is not a code loaded into it;
\* empty strings are skipped, a nil or empty list is accepted, and a nil
\* registry accepts every list.
C24_ValidateCodes ==
    [][\A call \in CallOf(lastOp') :
         (lastOp'.op = "ValidateCodes" /\ CallValidateCodes(call.registry, call.codes))
         => /\ lastOp'.outcome # ""
                 <=> /\ call.registry # {}
                     /\ \E s \in call.codes : \E i \in 1..Len(s) :
                           s[i] # "" /\ s[i] \notin LoadedCodes(call.registry)
            /\ (call.codes = {} \/ call.codes = {<<>>}) => lastOp'.outcome = ""
            /\ call.registry = {} => lastOp'.outcome = ""]_vars

\* a loaded registry has refused a list for its unknown code, after an empty
\* string and a loaded code
C24_Witness ==
    /\ lastOp.op = "ValidateCodes"
    /\ lastOp.req[1].registry # {}
    /\ lastOp.req[1].codes = {<<"", "view", "unknown">>}
    /\ lastOp.outcome = "invalid permission code: unknown"

---------------------------------------------------------------------------
(* Pagination of ListRelations and ListRoles. Page, PageSize and offset    *)
(* are Go ints; the model keeps two's complement wrap-around at a width of *)
(* IntBits bits, the thresholds 10 and 100 of the code lying well inside.  *)

IntBits == 16
MaxInt  == 2^(IntBits - 1) - 1

\* the value an int holds after an arithmetic result x
WrapInt(x) == ((x + 2^(IntBits - 1)) % 2^IntBits) - 2^(IntBits - 1)

\* pageSize := req.PageSize; 10 when <= 0; 100 when > 100
EffectivePageSize(pageSize) ==
    IF pageSize <= 0 THEN 10 ELSE IF pageSize > 100 THEN 100 ELSE pageSize

\* page := req.Page; 1 when <= 0
EffectivePage(page) == IF page <= 0 THEN 1 ELSE page

\* offset := (page - 1) * pageSize, on the effective values
PageOffset(page, pageSize) == WrapInt((EffectivePage(page) - 1) * EffectivePageSize(pageSize))

\* the number of rows LIMIT limit OFFSET offset leaves of n rows; an OFFSET
\* that is not positive is not sent to the database
LimitOffsetCount(n, limit, offset) ==
    LET skipped == IF offset > 0 THEN offset ELSE 0
    IN  IF n - skipped <= 0 THEN 0 ELSE IF n - skipped < limit THEN n - skipped ELSE limit

PageInputs     == {-1, 1, 2, MaxInt}
PageSizeInputs == {0, 1, 2, 101, MaxInt}

ListRelationsReqs == [namespace : {"", KAlice.namespace}, page : PageInputs, pageSize : PageSizeInputs]

ListRolesReqs == [isActive : {{}, {TRUE}}, page : PageInputs, pageSize : PageSizeInputs]

\* the page a list call answers with; offset is the value the call worked
\* with, which the response does not carry
PageOf(items, total, page, pageSize, offset) ==
    [items |-> items, total |-> total, page |-> page, pageSize |-> pageSize,
     hasNext |-> WrapInt(offset + pageSize) < total, offset |-> offset]

\* ListRelations with the namespace filter; the query has no ORDER BY, so
\* the rows of the page are any rows of the right number
ListRelations(req) ==
    LET pageSize == EffectivePageSize(req.pageSize)
        page     == EffectivePage(req.page)
        offset   == IF PageOffset(req.page, req.pageSize) < 0 THEN 0
                    ELSE PageOffset(req.page, req.pageSize)
        matching == {t \in tuples : req.namespace # "" => t.namespace = req.namespace}
        total    == Cardinality(matching)
    IN  /\ \E items \in SUBSET matching :
             /\ Cardinality(items) = LimitOffsetCount(total, pageSize, offset)
             /\ lastOp' = Returned("ListRelations", <<req>>, "OK",
                                   PageOf(items, total, page, pageSize, offset))
        /\ UNCHANGED <<cachedFrom, authVars, inflight, failures, relVars, roleVars>>

\* ListRoles: with a filter the page comes from SearchRoles, without one
\* from FindAll and the slice expression roles[start:end], which panics when
\* start is negative or greater than end
ListRoles(req) ==
    LET pageSize == EffectivePageSize(req.pageSize)
        page     == EffectivePage(req.page)
        offset   == PageOffset(req.page, req.pageSize)
        matching == {r \in roles : \A a \in req.isActive : r.isActive = a}
        total    == Cardinality(matching)
        start    == offset
        end      == IF WrapInt(offset + pageSize) > total THEN total
                    ELSE WrapInt(offset + pageSize)
    IN  /\ IF req.isActive # {}
           THEN \E items \in SUBSET matching :
                   /\ Cardinality(items) = LimitOffsetCount(total, pageSize, offset)
                   /\ lastOp' = Returned("ListRoles", <<req>>, "OK",
                                         PageOf(items, total, page, pageSize, offset))
           ELSE IF start > total
           THEN lastOp' = Returned("ListRoles", <<req>>, "OK",
                                   PageOf({}, total, page, pageSize, offset))
           ELSE IF start < 0 \/ start > end
           THEN lastOp' = Returned("ListRoles", <<req>>, "panic: slice bounds out of range",
                                   NoResult)
           ELSE \E items \in SUBSET matching :
                   /\ Cardinality(items) = end - start
                   /\ lastOp' = Returned("ListRoles", <<req>>, "OK",
                                         PageOf(items, total, page, pageSize, offset))
        /\ UNCHANGED <<cachedFrom, authVars, inflight, failures, relVars, roleVars>>

NextList ==
    \/ \E req \in {WithExpiry(k, {}) : k \in {KAlice, KMember}} : GrantRelation(req)
    \/ \E req \in {r \in CreateRoleReqs : r.projectId = {}} : CreateRole(req, FALSE)
    \/ \E req \in ListRelationsReqs : ListRelations(req)
    \/ \E req \in ListRolesReqs : ListRoles(req)

SpecList == Init /\ [][NextList]_vars

\* C25: for every requested page and pageSize, ListRelations and ListRoles
\* return a page whose size is the requested one brought into 1..100 (10
\* when <= 0, 100 when above 100), whose number is the requested one or 1
\* when that is <= 0, whose offset is (page - 1) * pageSize, and which has no
\* more items than the effective page size.
C25_PaginationClamped ==
    [][\A req \in CallOf(lastOp') :
         (\/ lastOp'.op = "ListRelations" /\ ListRelations(req)
          \/ lastOp'.op = "ListRoles" /\ ListRoles(req))
         => /\ lastOp'.outcome = "OK"
            /\ lastOp'.result.pageSize \in 1..100
            /\ lastOp'.result.pageSize =
                 (IF req.pageSize <= 0 THEN 10 ELSE IF req.pageSize > 100 THEN 100
                  ELSE req.pageSize)
            /\ lastOp'.result.page >= 1
            /\ lastOp'.result.page = (IF req.page <= 0 THEN 1 ELSE req.page)
            /\ lastOp'.result.offset = (lastOp'.result.page - 1) * lastOp'.result.pageSize
            /\ Cardinality(lastOp'.result.items) <= lastOp'.result.pageSize]_vars

---------------------------------------------------------------------------
(* AuthSvc: sessions and refresh tokens *)

MaxSessions == 3   \* rows the sessions table can hold

\* cfg.Jwt.RefreshTokenExpiresIn, in ticks of the clock
RefreshTokenExpiresIn == 1

SessionIds    == 1..MaxSessions
\* the values helper.GenerateRefreshToken can return
RefreshTokens == {"t1", "t2", "t3", "t4"}
\* the refreshToken a client can send: the handlers bind the body and do not
\* validate it, so the empty string reaches the service
PresentedTokens == RefreshTokens \cup {""}

\* Where(&model.Session{RefreshToken: refreshToken}).First(&result): a struct
\* condition leaves out a field holding its zero value, First orders by the
\* primary key; the result is nil (the empty set) when no row is found
FindByRefreshToken(refreshToken) ==
    LET found == IF refreshToken = "" THEN sessions
                 ELSE {s \in sessions : s.refreshToken = refreshToken}
    IN {s \in found : \A o \in found : s.id <= o.id}

\* Repository.Update(ctx, id, entity, fields...): the named columns of row id
\* take the values of entity
UpdateSession(id, entity, fields) ==
    {IF s.id = id
     THEN [f \in DOMAIN s |-> IF f \in fields THEN entity[f] ELSE s[f]]
     ELSE s : s \in sessions}

\* the row generateTokens hands to sessionRepo.Create
NewSession(id, userID, refreshToken) ==
    [id |-> id, userId |-> userID, refreshToken |-> refreshToken,
     expiresAt |-> now + RefreshTokenExpiresIn, isActive |-> TRUE]

\* generateTokens: a token no session holds yet, a row under a new random id
generateTokens(op, req, userID) ==
    \E id \in SessionIds \ {s.id : s \in sessions} :
    \E refreshToken \in RefreshTokens \ {s.refreshToken : s \in sessions} :
        /\ sessions' = sessions \cup {NewSession(id, userID, refreshToken)}
        /\ lastOp' = Returned(op, req, "OK",
                              [userId |-> userID, sessionId |-> id,
                               refreshToken |-> refreshToken,
                               refreshTokenExpiresAt |-> now + RefreshTokenExpiresIn])

\* a login whose credentials are accepted
Login(userID) ==
    /\ generateTokens("Login", <<[userId |-> userID]>>, userID)
    /\ UNCHANGED <<cachedFrom, loggedOut, inflight, failures, relVars, roleVars>>

RefreshToken(refreshToken) ==
    LET session == FindByRefreshToken(refreshToken)
        req     == <<[refreshToken |-> refreshToken]>>
    IN /\ IF session = {}
          THEN /\ lastOp' = Returned("RefreshToken", req, "ErrInvalidRefreshToken", NoResult)
               /\ UNCHANGED sessions
          ELSE \E s \in session :
                 IF s.expiresAt < now \/ ~s.isActive
                 THEN /\ lastOp' = Returned("RefreshToken", req, "ErrRefreshTokenExpired",
                                            NoResult)
                      /\ UNCHANGED sessions
                 ELSE generateTokens("RefreshToken", req, s.userId)
       /\ UNCHANGED <<cachedFrom, loggedOut, inflight, failures, relVars, roleVars>>

Logout(refreshToken) ==
    LET session == FindByRefreshToken(refreshToken)
        req     == <<[refreshToken |-> refreshToken]>>
    IN /\ IF session = {}
          THEN /\ lastOp' = Returned("Logout", req, "ErrInvalidRefreshToken", NoResult)
               /\ UNCHANGED <<sessions, loggedOut>>
          ELSE \E s \in session :
                 /\ sessions' = UpdateSession(s.id, [s EXCEPT !.isActive = FALSE],
                                              {"isActive"})
                 /\ lastOp' = Returned("Logout", req, "OK", NoResult)
                 /\ loggedOut' = loggedOut \cup {refreshToken}
       /\ UNCHANGED <<cachedFrom, inflight, failures, relVars, roleVars>>

NextAuth ==
    \/ \E u \in Users : Login(u)
    \/ \E t \in PresentedTokens : RefreshToken(t)
    \/ \E t \in PresentedTokens : Logout(t)
    \/ Tick

SpecAuth == Init /\ [][NextAuth]_vars

\* C26: a RefreshToken call presenting a token for which Logout has succeeded
\* fails, a RefreshToken call that finds a session whose expiresAt has passed
\* fails, and a failing RefreshToken call creates no session and returns no
\* token.
C26_LoggedOutOrExpiredTokenRefused ==
    [][\A t \in PresentedTokens :
         RefreshToken(t) =>
            /\ t \in loggedOut => lastOp'.outcome # "OK"
            /\ (\E s \in FindByRefreshToken(t) : s.expiresAt < now)
                  => lastOp'.outcome # "OK"
            /\ lastOp'.outcome # "OK"
                  => sessions' = sessions /\ lastOp'.result = NoResult]_vars

---------------------------------------------------------------------------
(* The duplicate check of GrantRelation, checked under SpecRel *)

\* C27: GrantRelation of a well-formed request returns ErrPermissionConflict
\* and inserts nothing whenever a valid row with the requested natural key is
\* stored, whatever other rows with that key are stored next to it.
C27_ValidRowNeverHidden ==
    [][\A req \in {lastOp'.req[i] : i \in 1..Len(lastOp'.req)} :
         (/\ lastOp'.op = "GrantRelation"
          /\ GrantRelation(req)
          /\ validateRelationRequest(req) = ""
          /\ \E t \in tuples : MatchTuple(t, req) /\ IsValid(t))
         => /\ lastOp'.outcome = "ErrPermissionConflict"
            /\ tuples' = tuples]_vars

---------------------------------------------------------------------------
(* The fields CheckRelation compares, checked under SpecRel *)

\* the valid rows whose first five key fields are those of the request,
\* whatever their subjectRelation
ValidRowsFor(req) ==
    {t \in tuples : /\ t.namespace = req.namespace
                    /\ t.objectId = req.objectId
                    /\ t.relation = req.relation
                    /\ t.subjectNamespace = req.subjectNamespace
                    /\ t.subjectObjectId = req.subjectObjectId
                    /\ t.isActive
                    /\ (t.expiresAt = {} \/ \E e \in t.expiresAt : e > now)}

\* namespace:objectId#relation@subjectNamespace:subjectObjectId under the prefix
FiveFieldCacheKey(req) ==
    "relation_tuples:" \o req.namespace \o ":" \o req.objectId \o "#" \o req.relation
        \o "@" \o req.subjectNamespace \o ":" \o req.subjectObjectId

\* C28: CheckRelation reads the cache under the key of the five request
\* fields, without a subjectRelation, and on a miss answers allowed=true
\* exactly when a valid row with these five fields is stored, whatever its
\* subjectRelation: also when the only such rows are userset rows.
C28_SubjectRelationIgnored ==
    [][\A req \in CheckReqs :
         (lastOp'.op = "CheckRelation" /\ CheckRelation(req))
         => /\ lastOp'.cache = <<CacheCall("Get", FiveFieldCacheKey(req))>>
            /\ FiveFieldCacheKey(req) \notin DOMAIN relCache
                 => lastOp'.result.allowed = (ValidRowsFor(req) # {})
            /\ (/\ FiveFieldCacheKey(req) \notin DOMAIN relCache
                /\ ValidRowsFor(req) # {}
                /\ \A t \in ValidRowsFor(req) : t.subjectRelation # "")
                 => lastOp'.result.allowed = TRUE]_vars

C28_Witness ==
    /\ lastOp.op = "CheckRelation"
    /\ lastOp.req[1] = Key5(KTeam)
    /\ lastOp.result.allowed = TRUE
    /\ ValidRowsFor(Key5(KTeam)) # {}
    /\ \A t \in ValidRowsFor(Key5(KTeam)) : t.subjectRelation = "member"
    /\ buildCacheKey(CheckKeyTuple(Key5(KTeam))) \notin DOMAIN relCache

---------------------------------------------------------------------------
(* GetUserPermissions as a read-through cache *)

NextReadThrough ==
    \/ \E req \in ConcCreateRoleReqs : CreateRole(req, TRUE)
    \/ \E req \in ConcAssignReqs : AssignRoleToUser(req, TRUE)
    \/ \E req \in ConcAssignReqs : RemoveRoleFromUser(req, TRUE)
    \/ \E u \in Users : GetUserPermissions(u)
    \/ \E u \in Users, call \in {"cache.Get", "userRoleRepo.FindByUserID", "cache.Set"} :
          GetUserPermissionsFailing(u, call)
    \/ \E u \in Users : clearUserPermissionsCache(u)
    \/ \E u \in Users : CacheExpire(u)

SpecReadThrough == Init /\ [][NextReadThrough]_vars

\* C29: GetUserPermissions on a cached key returns the cached map, makes the
\* cache Get its only cache call and leaves the cache alone; the read of the
\* assignment store can fail only on a miss, so a hit does not read the
\* store.  On a miss it returns the map computed from the user's assignment
\* rows and writes it under user_permissions:{userId} with a time to live of
\* one hour: the map written is the map returned.
C29_ReadThrough ==
    [][\A u \in Users :
         LET key == "user_permissions:" \o u
         IN  /\ (lastOp'.op = "GetUserPermissions" /\ GetUserPermissions(u))
                  => IF key \in DOMAIN permCache
                     THEN /\ lastOp'.result.permissions = permCache[key]
                          /\ lastOp'.cache = <<CacheCall("Get", key)>>
                          /\ permCache' = permCache
                     ELSE /\ lastOp'.result.permissions = PermissionsFromStore(u)
                          /\ lastOp'.cache = <<[call |-> "Get", key |-> key],
                                             [call |-> "Set", key |-> key, ttl |-> 3600]>>
                          /\ DOMAIN permCache' = DOMAIN permCache \cup {key}
                          /\ permCache'[key] = lastOp'.result.permissions
                          /\ \A k \in DOMAIN permCache : permCache'[k] = permCache[k]
             /\ GetUserPermissionsFailing(u, "userRoleRepo.FindByUserID")
                  => key \notin DOMAIN permCache]_vars

\* a hit for a user who holds an assignment
C29_Witness ==
    /\ lastOp.op = "GetUserPermissions"
    /\ lastOp.outcome = "OK"
    /\ lastOp.cache = <<CacheCall("Get", userPermissionsCacheKey("u1"))>>
    /\ userPermissionsCacheKey("u1") \in DOMAIN permCache
    /\ lastOp.result.permissions = permCache[userPermissionsCacheKey("u1")]
    /\ FindByUserID("u1") # {}

---------------------------------------------------------------------------
(* A failing item of BulkRevokeRelations *)

NextBulkFail ==
    \/ \E req \in {WithExpiry(k, {}) : k \in {KAlice, KMember}} : GrantRelation(req)
    \/ \E reqs \in BulkRevokeReqs : BulkRevokeRelations(reqs)
    \/ \E reqs \in BulkRevokeReqs, i \in 1..MaxBulk,
          call \in {"tupleRepo.FindByTuple", "tupleRepo.DeleteByTuple"} :
          BulkRevokeRelationsFailing(reqs, i, call)

SpecBulkFail == Init /\ [][NextBulkFail]_vars

\* the rows a revoke of one of the items deletes
RowsOfItems(store, items) ==
    {t \in store : \E j \in 1..Len(items) : MatchTuple(t, items[j])}

\* C30: when a store call of item i of BulkRevokeRelations fails with an error
\* other than not-found, the call returns that error (ErrInternal for the
\* lookup, ErrRevokePermission for the delete), the rows of the items before i
\* are gone and stay gone, and every other row, those of item i and of the
\* items after it included, is still stored.
C30_BulkRevokeStopsAtFailure ==
    [][\A reqs \in BulkRevokeReqs, i \in 1..MaxBulk,
          call \in {"tupleRepo.FindByTuple", "tupleRepo.DeleteByTuple"} :
         BulkRevokeRelationsFailing(reqs, i, call)
         => /\ lastOp'.op = "BulkRevokeRelations"
            /\ lastOp'.outcome = (IF call = "tupleRepo.FindByTuple"
                                  THEN "ErrInternal" ELSE "ErrRevokePermission")
            /\ RowsOfItems(tuples', SubSeq(reqs, 1, i - 1)) = {}
            /\ tuples' = tuples \ RowsOfItems(tuples, SubSeq(reqs, 1, i - 1))]_vars

\* rows of both keys are stored and the delete of the second item can fail
\* after the first item's row has been deleted
C30_Witness ==
    /\ RowsOfItems(tuples, <<KAlice>>) # {}
    /\ RowsOfItems(tuples, <<KMember>>) # {}
    /\ ENABLED (/\ BulkRevokeRelationsFailing(<<KAlice, KMember>>, 2, "tupleRepo.DeleteByTuple")
                /\ lastOp'.outcome = "ErrRevokePermission"
                /\ RowsOfItems(tuples', <<KAlice>>) = {}
                /\ RowsOfItems(tuples', <<KMember>>) # {})

---------------------------------------------------------------------------
(* Overlapping GetUserPermissions calls: the read of user_roles and the    *)
(* cache.Set are two round trips, and an assignment, a removal and the     *)
(* cache delete they start can fall between the two.                       *)

\* the loop of GetUserPermissions over the rows FindByUserID returned
PermissionsFromRows(userRolesRead) ==
    LET keys == UNION {{buildPermissionKey(PermissionsFromJSON(ur.Role.permissions)[i], ur.projectId) :
                          i \in 1..Len(PermissionsFromJSON(ur.Role.permissions))} :
                       ur \in userRolesRead}
    IN  [k \in keys |-> TRUE]

\* GetUserPermissions up to the end of FindByUserID: a hit returns the cached
\* map, a miss leaves the call holding the rows it has read
GetUserPermissionsLookup(c, userID) ==
    LET cacheKey == userPermissionsCacheKey(userID)
    IN  /\ inflight[c] = Idle
        /\ IF cacheKey \in DOMAIN permCache
           THEN /\ lastOp' = ReturnedVia("GetUserPermissions", <<[userId |-> userID]>>, "OK",
                                         [permissions |-> permCache[cacheKey]],
                                         <<CacheCall("Get", cacheKey)>>)
                /\ UNCHANGED inflight
           ELSE /\ inflight' = [inflight EXCEPT ![c] = [pc |-> "set",
                                                         op |-> "GetUserPermissions",
                                                         req |-> [userId |-> userID],
                                                         userRoles |-> FindByUserID(userID)]]
                /\ UNCHANGED lastOp
        /\ UNCHANGED <<cachedFrom, authVars, failures, relVars, roleVars>>

\* GetUserPermissions from the loop over the rows on: cache.Set and return
GetUserPermissionsSet(c) ==
    /\ inflight[c].pc = "set"
    /\ inflight[c].op = "GetUserPermissions"
    /\ LET cacheKey    == userPermissionsCacheKey(inflight[c].req.userId)
           permissions == PermissionsFromRows(inflight[c].userRoles)
       IN  /\ permCache' = [k \in DOMAIN permCache \cup {cacheKey} |->
                              IF k = cacheKey THEN permissions ELSE permCache[k]]
           /\ cachedFrom' = [k \in DOMAIN cachedFrom \cup {cacheKey} |->
                               IF k = cacheKey THEN inflight[c].userRoles ELSE cachedFrom[k]]
           /\ lastOp' = ReturnedVia("GetUserPermissions", <<inflight[c].req>>, "OK",
                                    [permissions |-> permissions],
                                    <<CacheCall("Get", cacheKey),
                                      CacheSetCall(cacheKey, CacheDefaultTTL)>>)
    /\ inflight' = [inflight EXCEPT ![c] = Idle]
    /\ UNCHANGED <<authVars, failures, relVars, roles, userRoles, pendingClear>>

NextConcRead ==
    \/ \E req \in ConcCreateRoleReqs : CreateRole(req, TRUE)
    \/ \E req \in ConcAssignReqs : AssignRoleToUser(req, TRUE)
    \/ \E req \in ConcAssignReqs : RemoveRoleFromUser(req, TRUE)
    \/ \E c \in Callers, u \in Users : GetUserPermissionsLookup(c, u)
    \/ \E c \in Callers : GetUserPermissionsSet(c)
    \/ \E u \in Users : clearUserPermissionsCache(u)

SpecConcRead == Init /\ [][NextConcRead]_vars

\* C31: a GetUserPermissions call of user U that starts while no cache delete
\* of U is outstanding (every delete started by an assignment or removal has
\* completed) and finds the key cached returns a map built from the user_roles
\* rows U has now, that is, from a store state that includes every such
\* mutation.
C31_NoStaleEntryAfterClear ==
    [][\A c \in Callers, u \in Users :
         (/\ GetUserPermissionsLookup(c, u)
          /\ userPermissionsCacheKey(u) \in DOMAIN permCache
          /\ pendingClear[u] = 0)
         => cachedFrom[userPermissionsCacheKey(u)] = FindByUserID(u)]_vars

---------------------------------------------------------------------------
(* The role service called by non-super-admins only *)

NextNonAdmin ==
    \/ \E req \in CreateRoleReqs : CreateRole(req, FALSE)
    \/ \E id \in RoleIds, req \in UpdateRoleReqs : UpdateRole(id, req, FALSE)
    \/ \E req \in AssignReqs : AssignRoleToUser(req, FALSE)
    \/ \E req \in AssignReqs : RemoveRoleFromUser(req, FALSE)

SpecNonAdmin == Init /\ [][NextNonAdmin]_vars

\* C32: while every call is made with isSuperAdmin=false, no user holds an
\* assignment in the system scope, that is, one whose projectId is null or
\* "system" and whose permission keys buildPermissionKey prefixes with
\* "system/".
C32_NoSystemScopeWithoutSuperAdmin ==
    \A ur \in BagToSet(userRoles) :
        /\ ur.projectId # {}
        /\ ur.projectId # {SystemProjectID}
        /\ buildPermissionKey("users.delete", ur.projectId) # "system/users.delete"

---------------------------------------------------------------------------
(* The three readings of expiresAt, checked under SpecExpired *)

\* C33: at every time every stored tuple is valid for GrantRelation's
\* duplicate check (IsValid) exactly when it passes the filter of
\* CheckRelation and ExpandRelation, and the row of a grant that has just
\* succeeded is not among the rows a CleanupExpiredRelations run at the same
\* instant deletes.
C33_ValidityReadingsAgree ==
    /\ [](\A t \in tuples : IsValid(t) <=> (t.isActive /\ NotExpiredFilter(t)))
    /\ [][(lastOp'.op = "GrantRelation" /\ lastOp'.outcome = "OK" /\ tuples' # tuples)
          => \A t \in lastOp'.result.rows : t \in CleanupExpired(tuples)']_vars

---------------------------------------------------------------------------
(* The rows a revoke touches, checked under SpecRel *)

\* C34: RevokeRelation deletes no row but those whose six key fields are the
\* request's, an empty subjectRelation of the request standing for rows
\* without one: userset rows with the same five fields survive a revoke
\* without subjectRelation, rows with another subjectRelation survive a
\* revoke with one, and the rows of every other natural key are unchanged.
\* When the call succeeds every row of the requested key is gone.
C34_RevokeBySubjectRelation ==
    [][\A req \in RevokeReqs :
         (lastOp'.op = "RevokeRelation" /\ RevokeRelation(req))
         => /\ tuples' \subseteq tuples
            /\ \A t \in tuples \ tuples' :
                  /\ t.namespace = req.namespace
                  /\ t.objectId = req.objectId
                  /\ t.relation = req.relation
                  /\ t.subjectNamespace = req.subjectNamespace
                  /\ t.subjectObjectId = req.subjectObjectId
                  /\ t.subjectRelation = req.subjectRelation
            /\ \A t \in tuples : Key6(t) # req => t \in tuples'
            /\ lastOp'.outcome = "OK" => \A t \in tuples' : Key6(t) # req]_vars

\* a revoke of document:readme#viewer@team:eng has deleted a row and the
\* userset row of team:eng#member is still stored
C34_Witness ==
    /\ lastOp.op = "RevokeRelation"
    /\ lastOp.req[1] = KTeamPlain
    /\ lastOp.outcome = "OK"
    /\ lastOp.result.deleted >= 1
    /\ \E t \in tuples : Key6(t) = KTeam
    /\ ~\E t \in tuples : Key6(t) = KTeamPlain

---------------------------------------------------------------------------
(* A role changed or deleted while users hold it *)

\* an update that shortens the permission list of a role
RoleChangeReqs == {[name |-> "Renamed", permissions |-> <<"users.view">>, isActive |-> {}]}

NextRoleChange ==
    \/ \E req \in ConcCreateRoleReqs : CreateRole(req, TRUE)
    \/ \E req \in ConcAssignReqs : AssignRoleToUser(req, TRUE)
    \/ \E id \in {1}, req \in RoleChangeReqs : UpdateRole(id, req, TRUE)
    \/ \E id \in {1} : DeleteRole(id, TRUE)
    \/ \E u \in Users : GetUserPermissions(u)
    \/ \E u \in Users : clearUserPermissionsCache(u)

SpecRoleChange == Init /\ [][NextRoleChange]_vars

\* C35: when the call before was a successful UpdateRole of a role user U
\* holds, or a successful DeleteRole, GetUserPermissions(U) returns the map of
\* the keys U's assignments give through the roles as they are stored now,
\* whether or not U's map was cached before the change.
C35_RoleChangeReflected ==
    [][\A u \in Users :
         (/\ lastOp'.op = "GetUserPermissions"
          /\ GetUserPermissions(u)
          /\ lastOp.outcome = "OK"
          /\ \/ /\ lastOp.op = "UpdateRole"
                /\ \E ur \in BagToSet(userRoles) :
                      ur.userId = u /\ ur.roleId = lastOp.req[1].roleId
             \/ lastOp.op = "DeleteRole")
         => lastOp'.result.permissions = [k \in KeysOfUser(u) |-> TRUE]]_vars

---------------------------------------------------------------------------
(* The columns UpdateRole writes *)

NextRoleUpdate ==
    \/ \E req \in CreateRoleReqs, isSuperAdmin \in BOOLEAN : CreateRole(req, isSuperAdmin)
    \/ \E id \in RoleIds, req \in UpdateRoleReqs, isSuperAdmin \in BOOLEAN :
          UpdateRole(id, req, isSuperAdmin)
    \/ \E req \in AssignReqs : AssignRoleToUser(req, TRUE)
    \/ \E u \in Users : clearUserPermissionsCache(u)

SpecRoleUpdate == Init /\ [][NextRoleUpdate]_vars

\* C36: an UpdateRole step leaves every role but the target as it is, adds
\* and removes no role, and keeps the target's id, code and projectId, so a
\* role is a system role after the call exactly when it was one before;
\* is_active changes only when the request carries isActive; the assignments
\* are untouched.
C36_UpdateRoleFrame ==
    [][\A id \in RoleIds, req \in UpdateRoleReqs, isSuperAdmin \in BOOLEAN :
         (lastOp'.op = "UpdateRole" /\ UpdateRole(id, req, isSuperAdmin))
         => /\ {r.id : r \in roles'} = {r.id : r \in roles}
            /\ Cardinality(roles') = Cardinality(roles)
            /\ \A r \in roles : r.id # id => r \in roles'
            /\ \A r \in roles, n \in roles' :
                  (r.id = id /\ n.id = id)
                  => /\ n.code = r.code
                     /\ n.projectId = r.projectId
                     /\ SystemRoleProtected(n.projectId, FALSE)
                           = SystemRoleProtected(r.projectId, FALSE)
                     /\ req.isActive = {} => n.isActive = r.isActive
            /\ userRoles' = userRoles]_vars

\* an update has renamed a system role while a second role is stored
C36_Witness ==
    /\ lastOp.op = "UpdateRole"
    /\ lastOp.outcome = "OK"
    /\ \E r \in roles : /\ r.id = lastOp.req[1].roleId
                        /\ r.name = "Renamed"
                        /\ r.projectId = {SystemProjectID}
                        /\ r.code \in RoleCodes
    /\ \E r \in roles : r.id # lastOp.req[1].roleId /\ r.name = "Administrator"

---------------------------------------------------------------------------
(* What a cleanup removes, checked under SpecRel *)

\* C37: a cleanup deletes exactly the rows with an expiresAt at or before
\* now and keeps every other row as it was; no CheckPermission answer and no
\* ExpandRelation answer is different right after the cleanup from right
\* before it.
C37_CleanupFrame ==
    [][(lastOp'.op = "CleanupExpiredRelations" /\ CleanupExpiredRelations)
       => /\ tuples' \subseteq tuples
          /\ \A t \in tuples :
                t \in tuples' <=> (t.expiresAt = {} \/ \E e \in t.expiresAt : e > now)
          /\ lastOp'.result.count = Cardinality(tuples \ tuples')
          /\ \A r \in CheckReqs : CheckPermission(r)' = CheckPermission(r)
          /\ \A r \in ExpandReqs : ExpandResult(r)' = ExpandResult(r)
          /\ relCache' = relCache]_vars

\* a cleanup has removed an expired row and kept a row that answers a check
C37_Witness ==
    /\ lastOp.op = "CleanupExpiredRelations"
    /\ lastOp.result.count >= 1
    /\ \E r \in CheckReqs : CheckPermission(r)
    /\ \E r \in ExpandReqs : ExpandResult(r).count >= 1

---------------------------------------------------------------------------
(* Refused calls: the relation and the role operations side by side *)

NextRefusal ==
    \/ \E k \in {KAlice, KTeam} : GrantRelation(WithExpiry(k, {}))
    \/ \E req \in {KAlice, KTeam} : RevokeRelation(req)
    \/ \E req \in ConcCreateRoleReqs, isSuperAdmin \in BOOLEAN : CreateRole(req, isSuperAdmin)
    \/ \E req \in RoleChangeReqs, isSuperAdmin \in BOOLEAN : UpdateRole(1, req, isSuperAdmin)
    \/ \E isSuperAdmin \in BOOLEAN : DeleteRole(1, isSuperAdmin)
    \/ \E req \in ConcAssignReqs, isSuperAdmin \in BOOLEAN : AssignRoleToUser(req, isSuperAdmin)
    \/ \E req \in ConcAssignReqs, isSuperAdmin \in BOOLEAN : RemoveRoleFromUser(req, isSuperAdmin)
    \/ \E u \in Users : GetUserPermissions(u)
    \/ \E u \in Users : clearUserPermissionsCache(u)

SpecRefusal == Init /\ [][NextRefusal]_vars

\* the conflict, not-found and forbidden outcomes of each operation
RefusedOutcomes ==
    [GrantRelation      |-> {"ErrPermissionConflict"},
     RevokeRelation     |-> {"ErrPermissionNotFound"},
     CreateRole         |-> {"ErrRoleConflict", "ErrSystemRoleProtected"},
     UpdateRole         |-> {"ErrRoleNotFound", "ErrSystemRoleProtected"},
     DeleteRole         |-> {"ErrRoleNotFound", "ErrSystemRoleProtected"},
     AssignRoleToUser   |-> {"ErrUserNotFound", "ErrRoleNotFound", "ErrConflict",
                             "ErrSystemRoleProtected"},
     RemoveRoleFromUser |-> {"ErrRoleNotFound", "ErrNotFound", "ErrSystemRoleProtected"}]

\* the step is a call that returned one of those outcomes
RefusedCall ==
    /\ lastOp' # lastOp
    /\ lastOp'.op \in DOMAIN RefusedOutcomes
    /\ lastOp'.outcome \in RefusedOutcomes[lastOp'.op]

\* C38: a relation or role operation that returns a conflict, not-found or
\* forbidden outcome leaves the tuples, the roles, the assignments, both
\* caches and the pending cache deletes exactly as they were.
C38_RefusedCallChangesNothing ==
    [][RefusedCall => UNCHANGED <<tuples, roles, userRoles, relCache, permCache, pendingClear>>]_vars

\* a duplicate assignment has been refused while a tuple, a role, an
\* assignment and a cached permission map exist
C38_Witness ==
    /\ lastOp.op = "AssignRoleToUser" /\ lastOp.outcome = "ErrConflict"
    /\ tuples # {} /\ roles # {}
    /\ BagCardinality(userRoles) >= 1
    /\ userPermissionsCacheKey("u1") \in DOMAIN permCache

====
